---------------------------- MODULE Spec2Model ----------------------------
(***************************************************************************)
(* Model of the quest validation engine of r0zar/innkeeper:                *)
(*   - the combinators and validator primitives of lib/kraxel-validation.ts *)
(*   - the Quest Validation Runner of lib/quest/validator.ts, driven by    *)
(*     the cron route, over the result store of lib/db/queries.ts          *)
(*   - the quests of the store: created by the createQuest tool           *)
(*     (lib/ai/tools/quest-tool.ts), patched and deleted by the PATCH and   *)
(*     DELETE handlers of api/quests/route.ts                               *)
(*                                                                         *)
(* Time is the JavaScript clock in milliseconds; the model advances it in  *)
(* steps of TickMs.  A result-store operation either completes or rejects; *)
(* an upstream (Kraxel) request either returns a response or fails after   *)
(* the client's retries.                                                   *)
(***************************************************************************)
EXTENDS Integers, Sequences, FiniteSets, TLC

(***************************************************************************)
(* Bounds of the model.                                                    *)
(***************************************************************************)
MaxTime == 3
MaxValidations == 2
MaxMatches == 2
MaxLeaves == 3
MaxSwaps == 3
MaxN == 2

MaxExecutions == 2

(***************************************************************************)
(* Program constants.                                                      *)
(***************************************************************************)
\* kraxel-api.ts 73-78: DEFAULT_CONFIG.maxRetries, DEFAULT_CONFIG.defaultTimeout
maxRetries == 3
defaultTimeout == 10000

\* kraxel-api.ts 154: the factor of the backoff delay, in milliseconds
backoffUnit == 100

\* validator.ts 13-17: VALIDATION_FREQUENCY
VALIDATION_FREQUENCY_DEFAULT == 5 * 60 * 1000
VALIDATION_FREQUENCY_ERROR == 15 * 60 * 1000
VALIDATION_FREQUENCY_SUCCESS == 10 * 60 * 1000

\* The clock step of the model: the cadence of the cron trigger (5 minutes).
TickMs == VALIDATION_FREQUENCY_DEFAULT

\* SQL NULL / JavaScript undefined of a timestamp column.
NoDate == 0 - 1

\* kraxel-validation.ts 148: the canonical Welsh token contract
WELSH_CANONICAL == "SP3NE50GEXFG9SZGTT51P40X2CKYSZ5CC4ZTZ7A2G.welshcorgicoin-token"

\* quest-tool.ts 12-23: criteriaSchema, the criteria types a quest can store
criteriaSchema ==
  {"swappedFor", "firstNBuyers", "minValueSwap", "holdsToken", "and", "or", "not"}

(***************************************************************************)
(* Token principals and asset identifiers.  Strings are atomic values in   *)
(* the model, so the string functions the code applies to them (trim,      *)
(* toLowerCase().includes('welsh'), split('::')[0]) are given by their     *)
(* value on each identifier of the finite universe used.                   *)
(***************************************************************************)
Principals == {"T", " T ", "U", "SP1.Welsh-Token", WELSH_CANONICAL}

\* String.prototype.trim on the principals of the universe
trim(p) == IF p = " T " THEN "T" ELSE p

\* normalized.toLowerCase().includes('welsh')
includesWelsh(p) == p \in {"SP1.Welsh-Token", WELSH_CANONICAL}

\* kraxel-validation.ts 138-153
normalizeTokenPrincipal(principal) ==
  LET normalized == trim(principal)
  IN  IF includesWelsh(normalized)
        THEN <<normalized, WELSH_CANONICAL>>
        ELSE <<normalized>>

\* Asset identifiers as they occur in swap legs: a contract principal,
\* optionally followed by '::' and a sub-token name.
Assets == {"T", "T::t", "U", "U::u", WELSH_CANONICAL, "SP1.Welsh-Token::w"}

\* detail.out_asset.split('::')[0]
splitBase(asset) ==
  CASE asset = "T::t" -> "T"
    [] asset = "U::u" -> "U"
    [] asset = "SP1.Welsh-Token::w" -> "SP1.Welsh-Token"
    [] OTHER -> asset

(***************************************************************************)
(* Transactions (kraxel-api.ts 11-28).  tx_id "" and user_address "" are   *)
(* the falsy values of a missing id / address.  An absent swap_details is  *)
(* the empty sequence: every use in the code is guarded by ?. and treats   *)
(* both the same.                                                          *)
(***************************************************************************)
Leg(ia, iam, oa, oam) ==
  [in_asset |-> ia, in_amount |-> iam, out_asset |-> oa, out_amount |-> oam]

Tx(id, addr, h, t, legs) ==
  [tx_id |-> id, user_address |-> addr, block_height |-> h, block_time |-> t,
   swap_details |-> legs]

\* ValidationResult (kraxel-validation.ts 14-18).  Two observations of the
\* execution are carried along with it: calls, the number of Data Client
\* requests it made, and caught, whether a catch block of a primitive ran
\* (its console.error line).
ValidationResult(sat, ms, n, c) ==
  [satisfied |-> sat, matches |-> ms, calls |-> n, caught |-> c]

\* KraxelResponse (kraxel-api.ts 47-51) or the rejection of request() after
\* its retries (ok = FALSE).
Response(ok, data) == [ok |-> ok, data |-> data]

\* The contract principals a request can name: every variant that
\* normalizeTokenPrincipal can produce.
Contracts == {trim(p) : p \in Principals} \cup {WELSH_CANONICAL}

(***************************************************************************)
(* Combinators (kraxel-validation.ts 47-132), as functions of the results  *)
(* of their operands.                                                      *)
(***************************************************************************)
\* addUniqueMatches without the look-up in seenTxIds
RECURSIVE addMatchesUnseen(_, _, _)
addMatchesUnseen(st, matches, k) ==
  IF k > Len(matches) THEN st
  ELSE LET match == matches[k]
       IN  IF match.tx_id # ""
             THEN addMatchesUnseen([seen |-> st.seen \cup {match.tx_id},
                                    out |-> Append(st.out, match)],
                                   matches, k + 1)
             ELSE addMatchesUnseen(st, matches, k + 1)

\* kraxel-validation.ts 92-99: addUniqueMatches; st = [seen, out]
RECURSIVE addUniqueMatches(_, _, _)
addUniqueMatches(st, matches, k) ==
  IF k > Len(matches) THEN st
  ELSE LET match == matches[k]
       IN  IF match.tx_id # "" /\ match.tx_id \notin st.seen
             THEN addUniqueMatches([seen |-> st.seen \cup {match.tx_id},
                                    out |-> Append(st.out, match)],
                                   matches, k + 1)
             ELSE addUniqueMatches(st, matches, k + 1)

\* kraxel-validation.ts 81-114: combinators.or
or(leftResult, rightResult) ==
  LET st0 == [seen |-> {}, out |-> <<>>]
      st1 == addUniqueMatches(st0, leftResult.matches, 1)
      st2 == addUniqueMatches(st1, rightResult.matches, 1)
  IN  ValidationResult(leftResult.satisfied \/ rightResult.satisfied,
                       st2.out,
                       leftResult.calls + rightResult.calls,
                       leftResult.caught \/ rightResult.caught)

\* kraxel-validation.ts 60-63: the equality of the filter of and
sameTransaction(leftMatch, rightMatch) ==
  \/ /\ leftMatch.tx_id # ""
     /\ rightMatch.tx_id # ""
     /\ leftMatch.tx_id = rightMatch.tx_id
  \/ /\ leftMatch.user_address # ""
     /\ rightMatch.user_address # ""
     /\ leftMatch.user_address = rightMatch.user_address

\* combinedMatches of and taken from the right operand instead of the left
andMatchesFromRight(leftResult, rightResult) ==
  SelectSeq(rightResult.matches,
            LAMBDA rightMatch :
              \E k \in 1..Len(leftResult.matches) :
                sameTransaction(leftResult.matches[k], rightMatch))

\* kraxel-validation.ts 58-64: combinedMatches of and
andMatches(leftResult, rightResult) ==
  SelectSeq(leftResult.matches,
            LAMBDA leftMatch :
              \E k \in 1..Len(rightResult.matches) :
                sameTransaction(leftMatch, rightResult.matches[k]))

\* and with satisfied taken from the operands alone
andSatisfiedByOperands(leftResult, rightResult) ==
  ValidationResult(leftResult.satisfied /\ rightResult.satisfied,
                   andMatches(leftResult, rightResult),
                   leftResult.calls + rightResult.calls,
                   leftResult.caught \/ rightResult.caught)

\* and that returns the matching entries of both operands
andKeepingBothSides(leftResult, rightResult) ==
  LET combinedMatches ==
        andMatches(leftResult, rightResult) \o andMatches(rightResult, leftResult)
  IN  ValidationResult(/\ leftResult.satisfied
                       /\ rightResult.satisfied
                       /\ Len(combinedMatches) > 0,
                       combinedMatches,
                       leftResult.calls + rightResult.calls,
                       leftResult.caught \/ rightResult.caught)

\* kraxel-validation.ts 51-76: combinators.and
and(leftResult, rightResult) ==
  LET combinedMatches == andMatches(leftResult, rightResult)
  IN  ValidationResult(/\ leftResult.satisfied
                       /\ rightResult.satisfied
                       /\ Len(combinedMatches) > 0,
                       combinedMatches,
                       leftResult.calls + rightResult.calls,
                       leftResult.caught \/ rightResult.caught)

\* not that keeps the matches of its operand
notKeepingMatches(result) ==
  ValidationResult(~result.satisfied, result.matches, result.calls, result.caught)

\* kraxel-validation.ts 119-131: combinators.not
not(result) ==
  ValidationResult(~result.satisfied, <<>>, result.calls, result.caught)

(***************************************************************************)
(* Validator primitives (kraxel-validation.ts 166-435), as functions of    *)
(* their parameters and of the upstream: what each Data Client method      *)
(* answers during the execution.                                           *)
(*   up.swapsByContract[c]  getSwapsByContract(c, window)                  *)
(*   up.recentSwaps         getRecentSwaps()                               *)
(*   up.latestPrices        getLatestPrices(); data: asset -> price,       *)
(*                          0 for an asset without a price                 *)
(*   up.tokenTransfers[c]   getTokenTransfers(userAddress, c)              *)
(***************************************************************************)
\* the filter of swappedFor without the test index === array.length - 1
isSwapForAnyLeg(swap, tokenVariant) ==
  \E k \in 1..Len(swap.swap_details) :
    splitBase(swap.swap_details[k].out_asset) = tokenVariant

\* kraxel-validation.ts 198-202: the filter of swappedFor
isSwapFor(swap, tokenVariant) ==
  LET array == swap.swap_details
  IN  /\ Len(array) > 0
      /\ splitBase(array[Len(array)].out_asset) = tokenVariant

\* the loop over the token variants without the break: every variant is
\* queried and the matches of all of them are returned
RECURSIVE swappedForUnion(_, _, _)
swappedForUnion(tokenVariations, k, up) ==
  IF k > Len(tokenVariations)
    THEN [threw |-> FALSE, matches |-> <<>>, calls |-> k - 1]
  ELSE LET tokenVariant == tokenVariations[k]
           swaps == up.swapsByContract[tokenVariant]
           matchingSwaps ==
             SelectSeq(swaps.data, LAMBDA swap : isSwapFor(swap, tokenVariant))
           rest == swappedForUnion(tokenVariations, k + 1, up)
       IN  IF ~swaps.ok
             THEN [threw |-> TRUE, matches |-> <<>>, calls |-> k]
             ELSE [threw |-> rest.threw,
                   matches |-> IF rest.threw THEN <<>>
                               ELSE matchingSwaps \o rest.matches,
                   calls |-> rest.calls]

\* the loop over the token variants with a rejected request passed over
\* like an empty answer
RECURSIVE swappedForLoopPassingOver(_, _, _)
swappedForLoopPassingOver(tokenVariations, k, up) ==
  IF k > Len(tokenVariations)
    THEN [threw |-> FALSE, matches |-> <<>>, calls |-> k - 1]
  ELSE LET tokenVariant == tokenVariations[k]
           swaps == up.swapsByContract[tokenVariant]
           matchingSwaps ==
             SelectSeq(swaps.data, LAMBDA swap : isSwapFor(swap, tokenVariant))
       IN  IF swaps.ok /\ Len(swaps.data) > 0 /\ Len(matchingSwaps) > 0
             THEN [threw |-> FALSE, matches |-> matchingSwaps, calls |-> k]
             ELSE swappedForLoopPassingOver(tokenVariations, k + 1, up)

\* kraxel-validation.ts 188-208: the loop over the token variants;
\* threw = a request rejected, calls = requests made
RECURSIVE swappedForLoop(_, _, _)
swappedForLoop(tokenVariations, k, up) ==
  IF k > Len(tokenVariations)
    THEN [threw |-> FALSE, matches |-> <<>>, calls |-> k - 1]
  ELSE LET tokenVariant == tokenVariations[k]
           swaps == up.swapsByContract[tokenVariant]
           matchingSwaps ==
             SelectSeq(swaps.data, LAMBDA swap : isSwapFor(swap, tokenVariant))
       IN  IF ~swaps.ok
             THEN [threw |-> TRUE, matches |-> <<>>, calls |-> k]
           ELSE IF Len(swaps.data) > 0 /\ Len(matchingSwaps) > 0
             THEN [threw |-> FALSE, matches |-> matchingSwaps, calls |-> k]
           ELSE swappedForLoop(tokenVariations, k + 1, up)

\* kraxel-validation.ts 178-179: new Date(t * 1000).toISOString() throws a
\* RangeError when t * 1000 is not a time value, one within 8.64e15 ms of the
\* epoch.  The model counts the unix timestamps of a time window in days, so
\* a timestamp is convertible when it is within 100,000,000 days of the epoch
toISOStringThrows(t) == t > 100000000 \/ t < 0 - 100000000

\* kraxel-validation.ts 166-226: the two timestamps are converted before the
\* first request (endTime 0 is the absent endTime: endTime || now gives the
\* clock, which converts); a conversion that throws, like a request that
\* rejects, is caught by the catch block of the validator
swappedFor(tokenPrincipal, startTime, endTime, up) ==
  LET r == swappedForLoop(normalizeTokenPrincipal(tokenPrincipal), 1, up)
  IN  IF toISOStringThrows(startTime) \/ toISOStringThrows(endTime)
        THEN ValidationResult(FALSE, <<>>, 0, TRUE)
      ELSE IF r.threw
        THEN ValidationResult(FALSE, <<>>, r.calls, TRUE)
        ELSE ValidationResult(Len(r.matches) > 0, r.matches, r.calls, FALSE)

\* Math.max
Max(a, b) == IF a >= b THEN a ELSE b

\* the USD value of a swap from the input side of its legs alone
RECURSIVE swapValueInputOnly(_, _, _)
swapValueInputOnly(details, k, priceData) ==
  IF k > Len(details) THEN 0
  ELSE LET detail == details[k]
           inValue == detail.in_amount * priceData[detail.in_asset]
       IN  inValue + swapValueInputOnly(details, k + 1, priceData)

\* kraxel-validation.ts 254-267: the USD value of a swap
RECURSIVE swapValue(_, _, _)
swapValue(details, k, priceData) ==
  IF k > Len(details) THEN 0
  ELSE LET detail == details[k]
           inValue == detail.in_amount * priceData[detail.in_asset]
           outValue == detail.out_amount * priceData[detail.out_asset]
       IN  Max(inValue, outValue) + swapValue(details, k + 1, priceData)

\* kraxel-validation.ts 242-284: the validator of minValueSwap over the
\* answer of getTransactions (a Response); fetched = 1 when getTransactions
\* is the default fetch of recent swaps, 0 when the caller supplies the set
minValueSwapOver(minValueUsd, transactions, fetched, up) ==
  IF ~transactions.ok
    THEN ValidationResult(FALSE, <<>>, fetched, TRUE)
  ELSE IF ~up.latestPrices.ok
    THEN ValidationResult(FALSE, <<>>, fetched + 1, TRUE)
  ELSE LET priceData == up.latestPrices.data
           matchingSwaps ==
             SelectSeq(transactions.data,
                       LAMBDA swap :
                         swapValue(swap.swap_details, 1, priceData) >= minValueUsd)
       IN  ValidationResult(Len(matchingSwaps) > 0, matchingSwaps,
                            fetched + 1, FALSE)

\* kraxel-validation.ts 234-241: minValueSwap with the default getTransactions
minValueSwap(minValueUsd, up) ==
  minValueSwapOver(minValueUsd, up.recentSwaps, 1, up)

\* kraxel-validation.ts 341-348: the comparator of the sort
compareSwaps(a, b) ==
  IF a.block_height # b.block_height
    THEN a.block_height - b.block_height
    ELSE a.block_time - b.block_time

\* Array.prototype.sort with compareSwaps (stable): insertion of x into a
\* sorted sequence after every element that does not compare greater
RECURSIVE insertSorted(_, _, _)
insertSorted(sorted, x, k) ==
  IF k > Len(sorted) THEN Append(sorted, x)
  ELSE IF compareSwaps(sorted[k], x) > 0
    THEN SubSeq(sorted, 1, k - 1) \o <<x>> \o SubSeq(sorted, k, Len(sorted))
    ELSE insertSorted(sorted, x, k + 1)

RECURSIVE sortSwaps(_, _, _)
sortSwaps(swaps, k, acc) ==
  IF k > Len(swaps) THEN acc
  ELSE sortSwaps(swaps, k + 1, insertSorted(acc, swaps[k], 1))

\* kraxel-validation.ts 350-363: first occurrence per address, up to n
RECURSIVE collectBuyers(_, _, _, _, _)
collectBuyers(filteredSwaps, k, n, uniqueAddresses, firstN) ==
  IF k > Len(filteredSwaps) THEN firstN
  ELSE LET swap == filteredSwaps[k]
       IN  IF swap.user_address # "" /\ swap.user_address \notin uniqueAddresses
             THEN LET pushed == Append(firstN, swap)
                  IN  IF Len(pushed) >= n
                        THEN pushed
                        ELSE collectBuyers(filteredSwaps, k + 1, n,
                               uniqueAddresses \cup {swap.user_address}, pushed)
             ELSE collectBuyers(filteredSwaps, k + 1, n, uniqueAddresses, firstN)

\* firstNBuyers whose minimum-value narrowing runs minValueSwap with its
\* default getTransactions (a fetch of the recent swaps)
firstNBuyersFreshFetch(tokenPrincipal, n, minValueUsd, startTime, up) ==
  LET swapResult == swappedFor(tokenPrincipal, startTime, 0, up)
      valueResult == minValueSwap(minValueUsd, up)
      narrowed == minValueUsd > 0
      calls == swapResult.calls + (IF narrowed THEN valueResult.calls ELSE 0)
      caught == swapResult.caught \/ (narrowed /\ valueResult.caught)
      filteredSwaps ==
        IF narrowed THEN valueResult.matches ELSE swapResult.matches
      buyers == collectBuyers(sortSwaps(filteredSwaps, 1, <<>>), 1, n, {}, <<>>)
  IN  IF ~swapResult.satisfied
        THEN ValidationResult(FALSE, <<>>, swapResult.calls, swapResult.caught)
      ELSE IF narrowed /\ ~valueResult.satisfied
        THEN ValidationResult(FALSE, <<>>, calls, caught)
      ELSE ValidationResult(Len(buyers) >= n, buyers, calls, caught)

\* kraxel-validation.ts 295-381; swappedFor is called with tokenPrincipal and
\* startTime, without an endTime (line 304)
firstNBuyers(tokenPrincipal, n, minValueUsd, startTime, up) ==
  LET swapResult == swappedFor(tokenPrincipal, startTime, 0, up)
      valueResult ==
        minValueSwapOver(minValueUsd, Response(TRUE, swapResult.matches), 0, up)
      narrowed == minValueUsd > 0
      calls == swapResult.calls + (IF narrowed THEN valueResult.calls ELSE 0)
      caught == swapResult.caught \/ (narrowed /\ valueResult.caught)
      filteredSwaps ==
        IF narrowed THEN valueResult.matches ELSE swapResult.matches
      buyers == collectBuyers(sortSwaps(filteredSwaps, 1, <<>>), 1, n, {}, <<>>)
  IN  IF ~swapResult.satisfied
        THEN ValidationResult(FALSE, <<>>, swapResult.calls, swapResult.caught)
      ELSE IF narrowed /\ ~valueResult.satisfied
        THEN ValidationResult(FALSE, <<>>, calls, caught)
      ELSE ValidationResult(Len(buyers) >= n, buyers, calls, caught)

\* the loop over the token variants without the early return: every
\* variant is queried and the transfers of all of them are returned
RECURSIVE holdsTokenUnion(_, _, _)
holdsTokenUnion(tokenVariations, k, up) ==
  IF k > Len(tokenVariations)
    THEN ValidationResult(FALSE, <<>>, k - 1, FALSE)
  ELSE LET transfers == up.tokenTransfers[tokenVariations[k]]
           rest == holdsTokenUnion(tokenVariations, k + 1, up)
       IN  IF ~transfers.ok
             THEN ValidationResult(FALSE, <<>>, k, TRUE)
           ELSE IF rest.caught
             THEN rest
           ELSE ValidationResult(Len(transfers.data \o rest.matches) > 0,
                                 transfers.data \o rest.matches,
                                 rest.calls, FALSE)

\* kraxel-validation.ts 399-419: the loop over the token variants
RECURSIVE holdsTokenLoop(_, _, _)
holdsTokenLoop(tokenVariations, k, up) ==
  IF k > Len(tokenVariations)
    THEN ValidationResult(FALSE, <<>>, k - 1, FALSE)
  ELSE LET transfers == up.tokenTransfers[tokenVariations[k]]
       IN  IF ~transfers.ok
             THEN ValidationResult(FALSE, <<>>, k, TRUE)
           ELSE IF Len(transfers.data) > 0
             THEN ValidationResult(TRUE, transfers.data, k, FALSE)
           ELSE holdsTokenLoop(tokenVariations, k + 1, up)

\* kraxel-validation.ts 389-435; up.tokenTransfers is the answer for userAddress
holdsToken(userAddress, tokenPrincipal, up) ==
  holdsTokenLoop(normalizeTokenPrincipal(tokenPrincipal), 1, up)

(***************************************************************************)
(* The upstream answers the runner model draws from.                       *)
(***************************************************************************)
TxA == Tx("t1", "a1", 10, 1000, <<Leg("U", 1, "T", 1)>>)
TxB == Tx("t2", "a2", 11, 2000, <<Leg("U", 2, "T::t", 1)>>)

\* every request fails after its retries
UpDown ==
  [swapsByContract |-> [c \in Contracts |-> Response(FALSE, <<>>)],
   recentSwaps |-> Response(FALSE, <<>>),
   latestPrices |-> Response(FALSE, [a \in Assets |-> 0]),
   tokenTransfers |-> [c \in Contracts |-> Response(FALSE, <<>>)]]

\* every request succeeds and returns no data
UpEmpty ==
  [swapsByContract |-> [c \in Contracts |-> Response(TRUE, <<>>)],
   recentSwaps |-> Response(TRUE, <<>>),
   latestPrices |-> Response(TRUE, [a \in Assets |-> 0]),
   tokenTransfers |-> [c \in Contracts |-> Response(TRUE, <<>>)]]

\* two swaps for token T by two addresses, one transfer of T
UpData ==
  [swapsByContract |->
     [c \in Contracts |->
        Response(TRUE, IF c = "T" THEN <<TxA, TxB>> ELSE <<>>)],
   recentSwaps |-> Response(TRUE, <<TxA, TxB>>),
   latestPrices |-> Response(TRUE, [a \in Assets |-> 1]),
   tokenTransfers |->
     [c \in Contracts |-> Response(TRUE, IF c = "T" THEN <<TxA>> ELSE <<>>)]]

RunnerUpstreams == {UpDown, UpEmpty, UpData}

\* the one swap for token T carries no user_address
UpNoAddress ==
  LET swap == Tx("t3", "", 12, 3000, <<Leg("U", 1, "T", 1)>>)
  IN  [swapsByContract |->
         [c \in Contracts |-> Response(TRUE, IF c = "T" THEN <<swap>> ELSE <<>>)],
       recentSwaps |-> Response(TRUE, <<swap>>),
       latestPrices |-> Response(TRUE, [a \in Assets |-> 1]),
       tokenTransfers |-> [c \in Contracts |-> Response(TRUE, <<>>)]]

\* The criteria.params of the quests of the runner model.
QuestParams ==
  [tokenPrincipal |-> "T", numUsers |-> 1, minValueUsd |-> 0, userAddress |-> "a1",
   startTime |-> 0, endTime |-> 0]

\* The concurrent invocations of the cron route a behaviour can have.
SweepIds == {1, 2}

(***************************************************************************)
(* State.                                                                  *)
(***************************************************************************)
VARIABLES
  now,          \* Date.now()
  quests,       \* table Quest, in insertion order; id = position
  validations,  \* table QuestValidation, in insertion order; id = position
  results,      \* table QuestValidationResult, in insertion order
  pc,           \* per sweep: where validateAllActiveQuests stands
  activeQuests, \* per sweep: the rows getActiveQuests returned
  idx,          \* per sweep: position of the for loop in activeQuests
  response,     \* per sweep: HTTP status the cron route answered (0: none yet)
  logged,       \* per sweep: outcome of the last validateSingleQuest call
  run,          \* per sweep: the locals of validateSingleQuest
  leftResult,   \* what the left operand of a combinator resolved to
  rightResult,  \* what the right operand of a combinator resolved to
  combinator,   \* the combinator that was executed ("none" before)
  combined,     \* what the combinator resolved to
  args,         \* the arguments a primitive query was built from
  upstream,     \* what the Data Client answers while the query executes
  primitive,    \* the primitive whose query was executed ("none" before)
  outcome,      \* what the query of the primitive resolved to
  req,          \* one call of KraxelAPI.request: its locals and its timer
  join,         \* one combinator query: the executions of its operands
  http          \* the last request to the validations endpoint and its answer

runnerVars ==
  <<now, quests, validations, results, pc, activeQuests, idx, response,
    logged, run>>

combVars == <<leftResult, rightResult, combinator, combined>>

primVars == <<args, upstream, primitive, outcome>>

sideVars == <<req, join, http>>

vars == <<runnerVars, combVars, primVars, sideVars>>

storeVars == <<validations, results>>

\* template strings of the error messages: no message, the message of a
\* rejected store operation, and validator.ts 226
NoMessage == <<>>
DbError == <<"db error">>
Unsupported(type) == <<"Unsupported criteria type: ", type>>

\* locals of validateSingleQuest before a run: startTime, validationId,
\* processed.addresses and the number of them written, isSuccess, errorMessage,
\* the clock read for the update after the switch (validator.ts 230, 237),
\* the clock read in the inner catch block (245, 254),
\* validationResult.satisfied and validationResult.matches; and two
\* observations of the run: executed, the primitive whose query was executed
\* ("none" before), and caught, whether a catch block of that primitive ran
NoRun ==
  [startTime |-> NoDate, validationId |-> 0, processed |-> <<>>, written |-> 0,
   isSuccess |-> FALSE, errorMessage |-> NoMessage, updateAt |-> NoDate,
   catchAt |-> NoDate, satisfied |-> FALSE, matches |-> <<>>,
   executed |-> "none", caught |-> FALSE]

\* The place of a row that deleteQuestById (queries.ts 445-468) has deleted.
\* The ids of quests and of validation records are generated and never used
\* again: the id of a row is its position in the order of insertion, and the
\* position of a deleted row holds Deleted.
Deleted == [deleted |-> TRUE]

\* a stored quest (lib/db/schema Quest; part_004 1-13), as created by the
\* createQuest tool (quest-tool.ts 53-63): status draft
Quest(type) ==
  [status |-> "draft", criteria |-> [type |-> type, params |-> QuestParams]]

\* The quests the createQuest tool is called for in a behaviour, in order:
\* one quest of any storable criteria type; one swappedFor quest whose stored
\* startTime does not convert to a date; or two quests, the first of a type
\* the runner has a case for and the second not.
QuestPopulations ==
  {<<Quest(t)>> : t \in criteriaSchema}
  \cup {<<[Quest("swappedFor") EXCEPT !.criteria.params.startTime = 100000001]>>}
  \cup {<<Quest("holdsToken"), Quest("and")>>}

\* no combinator under execution
CombIdle ==
  /\ leftResult = ValidationResult(FALSE, <<>>, 0, FALSE)
  /\ rightResult = ValidationResult(FALSE, <<>>, 0, FALSE)
  /\ combinator = "none"
  /\ combined = ValidationResult(FALSE, <<>>, 0, FALSE)

\* no primitive query under execution
PrimIdle ==
  /\ args = [tokenPrincipal |-> "T", n |-> 1, minValueUsd |-> 0,
             startTime |-> 0, endTime |-> 0]
  /\ upstream = UpEmpty
  /\ primitive = "none"
  /\ outcome = ValidationResult(FALSE, <<>>, 0, FALSE)

\* a call of request() that has not started: no attempt made, no time
\* elapsed, the timer not set, nothing waited, nothing caught or thrown
NoRequest ==
  [pc |-> "idle", attempts |-> 0, elapsed |-> 0, timer |-> "unset",
   fetches |-> 0, waits |-> <<>>, cause |-> "none", thrown |-> "none"]

\* a combinator query that was not executed: no operand running, none
\* completed, no execution counted
NoJoin ==
  [kind |-> "none", left |-> "idle", right |-> "idle", completed |-> <<>>,
   leftRuns |-> 0, rightRuns |-> 0, executions |-> 0, resolved |-> 0,
   previous |-> ValidationResult(FALSE, <<>>, 0, FALSE)]

\* no request to the validations endpoint yet: no session user, no
\* parameters, no status, nothing returned
NoHttp ==
  [session |-> "", questId |-> 0, validationId |-> 0, status |-> 0,
   results |-> <<>>, validations |-> <<>>, awaiting |-> FALSE]

\* no request and no combinator query under execution
SideIdle ==
  /\ req = NoRequest
  /\ join = NoJoin
  /\ http = NoHttp

\* the runner before the first sweep, over the quests qs and the validation
\* records vs
RunnerIdle(qs, vs) ==
  /\ now = 0
  /\ quests = qs
  /\ validations = vs
  /\ results = <<>>
  /\ pc = [s \in SweepIds |-> "idle"]
  /\ activeQuests = [s \in SweepIds |-> <<>>]
  /\ idx = [s \in SweepIds |-> 1]
  /\ response = [s \in SweepIds |-> 0]
  /\ logged = [s \in SweepIds |-> "none"]
  /\ run = [s \in SweepIds |-> NoRun]

\* the store is empty before the first quest is created
Init ==
  /\ RunnerIdle(<<>>, <<>>)
  /\ CombIdle
  /\ PrimIdle
  /\ SideIdle

(***************************************************************************)
(* Result store (lib/db/queries.ts).                                       *)
(***************************************************************************)
\* queries.ts 472-482: the answers the query can give: the quests with
\* status active, with their ids; the select has no ORDER BY, so the order of
\* the rows is the database's
getActiveQuests ==
  LET ids == SelectSeq([i \in 1..Len(quests) |-> i],
                       LAMBDA i : quests[i] # Deleted /\ quests[i].status = "active")
  IN  {[k \in 1..Len(ids) |->
          [id |-> ids[p[k]], criteria |-> quests[ids[p[k]]].criteria]] :
         p \in Permutations(1..Len(ids))}

\* queries.ts 598-612: the ids the query can answer with (0: no record): the
\* first row of the records of the quest ordered by validatedAt descending;
\* among records of the quest with the same greatest validatedAt the
\* database decides which one comes first
getLatestQuestValidation(questId) ==
  LET S == {i \in 1..Len(validations) :
              validations[i] # Deleted /\ validations[i].questId = questId}
  IN  IF S = {} THEN {0}
      ELSE {i \in S :
              \A j \in S : validations[j].validatedAt <= validations[i].validatedAt}

\* queries.ts 484-508: the row createQuestValidation inserts
createQuestValidation(questId, validationData, validatedAt) ==
  [questId |-> questId, validationData |-> validationData,
   status |-> "pending", validatedAt |-> validatedAt,
   nextValidationAt |-> NoDate, processingTime |-> 0,
   errorMessage |-> NoMessage, validAddresses |-> <<>>]

\* updateQuestValidation with the WHERE clause on the quest of the record
\* instead of the record
updateQuestValidationByQuest(table, id, updates) ==
  [i \in 1..Len(table) |->
     IF table[id] # Deleted /\ table[i] # Deleted
        /\ table[i].questId = table[id].questId
       THEN [f \in DOMAIN table[i] |->
               IF f \in DOMAIN updates THEN updates[f] ELSE table[i][f]]
       ELSE table[i]]

\* queries.ts 510-539: the table after updateQuestValidation({id, ...updates});
\* updates holds the fields that are not undefined; no row is updated when
\* the row of the id has been deleted
updateQuestValidation(table, id, updates) ==
  [i \in 1..Len(table) |->
     IF i = id /\ table[i] # Deleted
       THEN [f \in DOMAIN table[i] |->
               IF f \in DOMAIN updates THEN updates[f] ELSE table[i][f]]
       ELSE table[i]]

\* queries.ts 554-580: the row createQuestValidationResult inserts
createQuestValidationResult(validationId, userAddress, resultData, criteriaType) ==
  [validationId |-> validationId, userAddress |-> userAddress, isValid |-> TRUE,
   resultData |-> resultData, criteriaType |-> criteriaType]

\* queries.ts 445-468: the tables after the statements of
\* deleteQuestById({id}) that have completed.  The loop of 453-457 deletes
\* the result rows record by record, one statement per validation record of
\* the quest: looped is the set of the records whose statement has
\* completed.  done counts the statements completed after the loop: the
\* deletion of the records of the quest (460), then that of the quest (463).
deleteQuestById(id, looped, done) ==
  LET ofQuest(validationId) ==
        /\ validations[validationId] # Deleted
        /\ validations[validationId].questId = id
  IN  [results |->
         SelectSeq(results, LAMBDA row : row.validationId \notin looped),
       validations |->
         IF done >= 1
           THEN [i \in 1..Len(validations) |->
                   IF ofQuest(i) THEN Deleted ELSE validations[i]]
           ELSE validations,
       quests |->
         IF done >= 2 THEN [quests EXCEPT ![id] = Deleted] ELSE quests]

(***************************************************************************)
(* Quest Validation Runner (lib/quest/validator.ts).                       *)
(***************************************************************************)
\* the case labels of the switch of validateSingleQuest (validator.ts 115-223)
supportedTypes == {"swappedFor", "firstNBuyers", "minValueSwap", "holdsToken"}

\* JavaScript  x || d  on a number
OrDefault(x, d) == IF x = 0 THEN d ELSE x

\* validator.ts 115-223: the query the switch builds from criteria.params,
\* executed against the upstream
executeCriteria(criteria, up) ==
  CASE criteria.type = "swappedFor" ->
         swappedFor(criteria.params.tokenPrincipal,
                    OrDefault(criteria.params.startTime, 0),
                    criteria.params.endTime, up)
    [] criteria.type = "firstNBuyers" ->
         firstNBuyers(criteria.params.tokenPrincipal,
                      OrDefault(criteria.params.numUsers, 10),
                      OrDefault(criteria.params.minValueUsd, 0),
                      OrDefault(criteria.params.startTime, 0), up)
    [] criteria.type = "minValueSwap" ->
         minValueSwap(OrDefault(criteria.params.minValueUsd, 0), up)
    [] criteria.type = "holdsToken" ->
         holdsToken(criteria.params.userAddress, criteria.params.tokenPrincipal, up)

\* processValidationResult over the first match alone
processValidationResultFirst(result) ==
  [k \in 1..(IF Len(result.matches) > 0 THEN 1 ELSE 0) |->
     [address |-> result.matches[k].user_address,
      isValid |-> TRUE,
      data |-> [tx_id |-> result.matches[k].tx_id,
                block_height |-> result.matches[k].block_height]]]

\* validator.ts 53-74: processValidationResult
processValidationResult(result) ==
  [k \in 1..Len(result.matches) |->
     [address |-> result.matches[k].user_address,
      isValid |-> TRUE,
      data |-> [tx_id |-> result.matches[k].tx_id,
                block_height |-> result.matches[k].block_height]]]

\* processed.validAddresses (validator.ts 68)
validAddressesOf(processed) == [k \in 1..Len(processed) |-> processed[k].address]

\* the gate with the comparison the other way round
shouldSkipFlipped(last, t) ==
  /\ last # 0
  /\ validations[last].nextValidationAt # NoDate
  /\ t > validations[last].nextValidationAt

\* the gate skipping also while the latest record is pending
shouldSkipWhilePending(last, t) ==
  /\ last # 0
  /\ \/ validations[last].status = "pending"
     \/ /\ validations[last].nextValidationAt # NoDate
        /\ t < validations[last].nextValidationAt

\* validator.ts 84-90: the gate; last is the id getLatestQuestValidation gave
shouldSkip(last, t) ==
  /\ last # 0
  /\ validations[last].nextValidationAt # NoDate
  /\ t < validations[last].nextValidationAt

\* the update after the switch with the status not depending on isSuccess
successUpdateAlwaysSuccess(r) ==
  [status |-> "success",
   validAddresses |-> validAddressesOf(r.processed),
   processingTime |-> r.updateAt - r.startTime,
   nextValidationAt |-> r.updateAt + VALIDATION_FREQUENCY_SUCCESS]

\* validator.ts 229-239: the fields of the update after the switch, from the
\* locals r of the run; r.updateAt is the clock read when the arguments of
\* updateQuestValidation were evaluated
successUpdate(r) ==
  [status |-> IF r.isSuccess THEN "success" ELSE "failed",
   validAddresses |-> validAddressesOf(r.processed),
   processingTime |-> r.updateAt - r.startTime,
   nextValidationAt |-> r.updateAt + VALIDATION_FREQUENCY_SUCCESS]

\* the update of the inner catch block with the interval of the success path
errorUpdateSuccessInterval(r) ==
  [status |-> "failed",
   errorMessage |-> r.errorMessage,
   processingTime |-> r.catchAt - r.startTime,
   nextValidationAt |-> r.catchAt + VALIDATION_FREQUENCY_SUCCESS]

\* the update of the inner catch block without nextValidationAt
errorUpdateWithoutNext(r) ==
  [status |-> "failed",
   errorMessage |-> r.errorMessage,
   processingTime |-> r.catchAt - r.startTime]

\* validator.ts 244-256: the fields of the update of the inner catch block,
\* from the locals r of the run; r.catchAt is the clock of the catch block
errorUpdate(r) ==
  [status |-> "failed",
   errorMessage |-> r.errorMessage,
   processingTime |-> r.catchAt - r.startTime,
   nextValidationAt |-> r.catchAt + VALIDATION_FREQUENCY_ERROR]

\* part_001 16-37: validateAllActiveQuests is over and the route answers
\* with the HTTP status code; the locals of the sweep are gone
Return(s, code) ==
  /\ pc' = [pc EXCEPT ![s] = "idle"]
  /\ response' = [response EXCEPT ![s] = code]
  /\ activeQuests' = [activeQuests EXCEPT ![s] = <<>>]
  /\ idx' = [idx EXCEPT ![s] = 1]
  /\ run' = [run EXCEPT ![s] = NoRun]

\* the for loop going on with the next quest while the locals of the run
\* of the previous one are still in use
ProceedKeepingRun(s) ==
  IF idx[s] + 1 > Len(activeQuests[s])
    THEN Return(s, 200)
    ELSE /\ idx' = [idx EXCEPT ![s] = idx[s] + 1]
         /\ pc' = [pc EXCEPT ![s] = "gate"]
         /\ UNCHANGED <<run, response, activeQuests>>

\* validator.ts 45-47: validateSingleQuest has returned; the for loop goes on
\* with the next quest, or the sweep is over and the route answers 200
Proceed(s) ==
  IF idx[s] + 1 > Len(activeQuests[s])
    THEN Return(s, 200)
    ELSE /\ idx' = [idx EXCEPT ![s] = idx[s] + 1]
         /\ pc' = [pc EXCEPT ![s] = "gate"]
         /\ run' = [run EXCEPT ![s] = NoRun]
         /\ UNCHANGED <<response, activeQuests>>

\* validator.ts 243-256: the inner catch block starts: it takes the message
\* and the clock and calls updateQuestValidation
Catch(s, message) ==
  /\ run' = [run EXCEPT ![s].errorMessage = message, ![s].catchAt = now]
  /\ pc' = [pc EXCEPT ![s] = "catch"]
  /\ UNCHANGED <<idx, response, activeQuests, logged>>

\* quest-tool.ts 36-63 and queries.ts 361-388: the createQuest tool stores
\* the next quest of one of the populations, with status draft
CreateQuest ==
  /\ \E qs \in QuestPopulations :
       /\ Len(qs) > Len(quests)
       /\ \A i \in 1..Len(quests) :
            quests[i] # Deleted /\ quests[i].criteria = qs[i].criteria
       /\ quests' = Append(quests, qs[Len(quests) + 1])
  /\ UNCHANGED <<now, storeVars, pc, activeQuests, idx, response, logged, run, combVars, primVars, sideVars>>

\* api/quests/route.ts 42-84: PATCH of a quest by its owner with a status;
\* the status of the request body is stored as it is (74, 79), whether it is
\* one of the schema or not.  The runner tells a status only by its being
\* 'active' (queries.ts 477): the requests of the model set active, one
\* other status of the schema, or a string that is none of them.
PATCH ==
  /\ \E id \in 1..Len(quests), status \in {"active", "completed", "paused"} :
       /\ quests[id] # Deleted
       /\ quests' = [quests EXCEPT ![id].status = status]
  /\ UNCHANGED <<now, storeVars, pc, activeQuests, idx, response, logged, run, combVars, primVars, sideVars>>

\* api/quests/route.ts 86-121: DELETE of a quest by its owner; the
\* statements of deleteQuestById all complete, or one of them rejects after
\* the ones before it have completed (the route answers 500).  The loop
\* takes the records of the quest in the order the database gave them (the
\* select of 448-451 has no ORDER BY), so the records whose rows are gone
\* when a statement of the loop rejects are any of the records of the quest;
\* the statements after the loop run only when the loop has completed.  The
\* store a request leaves when it stops after some of its statements is the
\* store another request or a sweep reads between two of those statements.
DELETE ==
  /\ \E id \in 1..Len(quests), done \in 0..2 :
       LET ofQuest == {i \in 1..Len(validations) :
                         validations[i] # Deleted /\ validations[i].questId = id}
       IN  \E looped \in SUBSET ofQuest :
             /\ quests[id] # Deleted
             /\ done >= 1 => looped = ofQuest
             /\ quests' = deleteQuestById(id, looped, done).quests
             /\ validations' = deleteQuestById(id, looped, done).validations
             /\ results' = deleteQuestById(id, looped, done).results
  /\ UNCHANGED <<now, pc, activeQuests, idx, response, logged, run, combVars, primVars, sideVars>>

\* the clock advances
Tick ==
  /\ now < MaxTime * TickMs
  /\ now' = now + TickMs
  /\ UNCHANGED <<quests, storeVars, pc, activeQuests, idx, response, logged, run, combVars, primVars, sideVars>>

\* part_001 10-16 and validator.ts 41-43: the cron route starts a sweep and
\* getActiveQuests answers (or rejects, and the route answers 500)
StartSweep(s) ==
  /\ pc[s] = "idle"
  /\ logged' = [logged EXCEPT ![s] = "none"]
  /\ \E ok \in BOOLEAN, rows \in getActiveQuests :
       IF ok /\ Len(rows) > 0
         THEN /\ activeQuests' = [activeQuests EXCEPT ![s] = rows]
              /\ response' = [response EXCEPT ![s] = 0]
              /\ pc' = [pc EXCEPT ![s] = "gate"]
              /\ UNCHANGED <<idx, run>>
         ELSE Return(s, IF ok THEN 200 ELSE 500)
  /\ UNCHANGED <<now, quests, storeVars, combVars, primVars, sideVars>>

\* validator.ts 79-102: validateSingleQuest reads the latest validation and
\* either skips the quest or takes startTime and calls createQuestValidation;
\* a rejection of the read leaves validateAllActiveQuests (route answers 500)
Gate(s) ==
  /\ pc[s] = "gate"
  /\ LET quest == activeQuests[s][idx[s]]
     IN  \E ok \in BOOLEAN, lastValidation \in getLatestQuestValidation(quest.id) :
           IF ~ok
             THEN /\ Return(s, 500)
                  /\ UNCHANGED logged
           ELSE IF shouldSkip(lastValidation, now)
             THEN /\ logged' = [logged EXCEPT ![s] = "skipped"]
                  /\ Proceed(s)
             ELSE /\ run' = [run EXCEPT ![s].startTime = now]
                  /\ pc' = [pc EXCEPT ![s] = "create"]
                  /\ UNCHANGED <<idx, response, activeQuests, logged>>
  /\ UNCHANGED <<now, quests, storeVars, combVars, primVars, sideVars>>

\* validator.ts 96-104 and 261-263: createQuestValidation completes, or
\* rejects and the outer catch block logs it; the insert is rejected when
\* the quest has been deleted (QuestValidation_questId_Quest_id_fk,
\* migrations/0007 24).  limit bounds the records of a behaviour.
CreateUpTo(s, limit) ==
  /\ pc[s] = "create"
  /\ LET quest == activeQuests[s][idx[s]]
     IN  \E ok \in BOOLEAN :
           IF ok /\ quests[quest.id] # Deleted
             THEN /\ Len(validations) < limit
                  /\ validations' =
                       Append(validations,
                              createQuestValidation(
                                quest.id,
                                [criteria |-> quest.criteria,
                                 startTime |-> run[s].startTime],
                                run[s].startTime))
                  /\ run' = [run EXCEPT ![s].validationId = Len(validations) + 1]
                  /\ pc' = [pc EXCEPT ![s] = "execute"]
                  /\ UNCHANGED <<idx, response, activeQuests, logged>>
             ELSE /\ logged' = [logged EXCEPT ![s] = "create-failed"]
                  /\ Proceed(s)
                  /\ UNCHANGED validations
  /\ UNCHANGED <<now, quests, results, combVars, primVars, sideVars>>

\* validator.ts 96-104: createQuestValidation, for at most MaxValidations
\* records
Create(s) ==
  /\ pc[s] = "create"
  /\ CreateUpTo(s, MaxValidations)

\* validator.ts 109-127 (and the same lines of the other cases), 225-232:
\* the switch on criteria.type; a supported type builds its query and
\* executes it against one of the upstreams, any other type throws into the
\* inner catch block.  Without an address to write, the run goes on to read
\* the clock and to call updateQuestValidation.
ExecuteOver(s, upstreams) ==
  /\ pc[s] = "execute"
  /\ LET criteria == activeQuests[s][idx[s]].criteria
     IN  IF criteria.type \in supportedTypes
           THEN \E up \in upstreams :
                  LET validationResult == executeCriteria(criteria, up)
                      processed == processValidationResult(validationResult)
                  IN  /\ run' = [run EXCEPT ![s].processed = processed,
                                            ![s].satisfied = validationResult.satisfied,
                                            ![s].matches = validationResult.matches,
                                            ![s].isSuccess =
                                              IF Len(processed) = 0
                                                THEN validationResult.satisfied
                                                ELSE @,
                                            ![s].executed = criteria.type,
                                            ![s].caught = validationResult.caught,
                                            ![s].updateAt =
                                              IF Len(processed) = 0 THEN now ELSE @]
                      /\ pc' = [pc EXCEPT ![s] =
                                  IF Len(processed) = 0 THEN "update" ELSE "rows"]
                      /\ UNCHANGED <<idx, response, activeQuests, logged>>
           ELSE Catch(s, Unsupported(criteria.type))
  /\ UNCHANGED <<now, quests, storeVars, combVars, primVars, sideVars>>

\* validator.ts 109-227: the switch executed against the upstreams of the
\* runner model
Execute(s) ==
  /\ pc[s] = "execute"
  /\ ExecuteOver(s, RunnerUpstreams)

\* validator.ts 129-137 and 229-232: one createQuestValidationResult of the
\* loop over processed.addresses completes, or rejects into the inner catch
\* block; the insert is rejected when the validation record has been deleted
\* (QuestValidationResult_validationId_QuestValidation_id_fk, migrations/0007
\* 30).  After the last row the run reads the clock and calls
\* updateQuestValidation.
WriteRow(s) ==
  /\ pc[s] = "rows"
  /\ LET criteria == activeQuests[s][idx[s]].criteria
         address == run[s].processed[run[s].written + 1]
     IN  \E ok \in BOOLEAN :
           IF ok /\ validations[run[s].validationId] # Deleted
             THEN /\ results' =
                       Append(results,
                              createQuestValidationResult(
                                run[s].validationId, address.address,
                                address.data, criteria.type))
                  /\ run' = [run EXCEPT ![s].written = @ + 1,
                                        ![s].isSuccess =
                                          IF run[s].written + 1 = Len(run[s].processed)
                                            THEN run[s].satisfied ELSE @,
                                        ![s].updateAt =
                                          IF run[s].written + 1 = Len(run[s].processed)
                                            THEN now ELSE @]
                  /\ pc' = [pc EXCEPT ![s] =
                              IF run[s].written + 1 = Len(run[s].processed)
                                THEN "update" ELSE "rows"]
                  /\ UNCHANGED <<idx, response, activeQuests, logged>>
             ELSE /\ Catch(s, DbError)
                  /\ UNCHANGED results
  /\ UNCHANGED <<now, quests, validations, combVars, primVars, sideVars>>

\* validator.ts 233-241: the update of the record that was called after the
\* switch completes, with the fields its arguments had at the call, or
\* rejects into the inner catch block
Update(s) ==
  /\ pc[s] = "update"
  /\ \E ok \in BOOLEAN :
       IF ok
         THEN /\ validations' =
                   updateQuestValidation(validations, run[s].validationId,
                                         successUpdate(run[s]))
              /\ logged' = [logged EXCEPT ![s] = "completed"]
              /\ Proceed(s)
         ELSE /\ Catch(s, DbError)
              /\ UNCHANGED validations
  /\ UNCHANGED <<now, quests, results, combVars, primVars, sideVars>>

\* validator.ts 250-258 and 261-263: the update of the inner catch block
\* completes, or rejects and the outer catch block logs it
CatchUpdate(s) ==
  /\ pc[s] = "catch"
  /\ \E ok \in BOOLEAN :
       IF ok
         THEN /\ validations' =
                   updateQuestValidation(validations, run[s].validationId,
                                         errorUpdate(run[s]))
              /\ logged' = [logged EXCEPT ![s] = "errored"]
         ELSE /\ logged' = [logged EXCEPT ![s] = "create-failed"]
              /\ UNCHANGED validations
  /\ Proceed(s)
  /\ UNCHANGED <<now, quests, results, combVars, primVars, sideVars>>

\* sweeps triggered one after another (a single invocation of the cron route
\* at a time), while quests are created, patched and deleted and time passes
Next ==
  \/ CreateQuest
  \/ PATCH
  \/ DELETE
  \/ Tick
  \/ StartSweep(1)
  \/ Gate(1)
  \/ Create(1)
  \/ Execute(1)
  \/ WriteRow(1)
  \/ Update(1)
  \/ CatchUpdate(1)

Spec == Init /\ [][Next]_vars

(***************************************************************************)
(* Combinators over operand results drawn from a bounded universe.         *)
(***************************************************************************)
\* the sequences over S of length at most n
SeqsUpTo(S, n) == UNION {[1..k -> S] : k \in 0..n}

\* operand matches: with and without a tx_id, with and without a user_address
CombTxs ==
  {Tx(id, addr, 10, 1000, <<>>) :
     id \in {"", "t1", "t2"}, addr \in {"", "a1", "a2"}}

\* what an operand query can resolve to
OperandResults ==
  {ValidationResult(sat, ms, 1, FALSE) :
     sat \in BOOLEAN, ms \in SeqsUpTo(CombTxs, MaxMatches)}

InitComb ==
  /\ RunnerIdle(<<>>, <<>>)
  /\ PrimIdle
  /\ SideIdle
  /\ leftResult \in OperandResults
  /\ rightResult \in OperandResults
  /\ combinator = "none"
  /\ combined = ValidationResult(FALSE, <<>>, 0, FALSE)

\* kraxel-validation.ts 82-113: execute() of or(left, right) after both
\* operands resolved
ExecuteOr ==
  /\ combinator = "none"
  /\ combinator' = "or"
  /\ combined' = or(leftResult, rightResult)
  /\ UNCHANGED <<leftResult, rightResult, runnerVars, primVars, sideVars>>

\* kraxel-validation.ts 52-75: execute() of and(left, right) after both
\* operands resolved
ExecuteAnd ==
  /\ combinator = "none"
  /\ combinator' = "and"
  /\ combined' = and(leftResult, rightResult)
  /\ UNCHANGED <<leftResult, rightResult, runnerVars, primVars, sideVars>>

\* kraxel-validation.ts 120-130: execute() of not(validator) after its
\* operand (leftResult) resolved
ExecuteNot ==
  /\ combinator = "none"
  /\ combinator' = "not"
  /\ combined' = not(leftResult)
  /\ UNCHANGED <<leftResult, rightResult, runnerVars, primVars, sideVars>>

NextComb ==
  \/ ExecuteOr
  \/ ExecuteAnd
  \/ ExecuteNot

SpecComb == InitComb /\ [][NextComb]_vars

(***************************************************************************)
(* Properties of the runner.                                               *)
(***************************************************************************)
\* the clock at which the run of record v made its final write:
\* validationData.startTime + processingTime
finishedAt(v) == v.validationData.startTime + v.processingTime

\* the step writes the validation record id
recordWritten(id) ==
  /\ id # 0
  /\ validations[id] # Deleted
  /\ validations'[id] # Deleted
  /\ validations'[id] # validations[id]

\* the sweep s takes a step
Stepped(s) == pc'[s] # pc[s] \/ idx'[s] # idx[s] \/ run'[s] # run[s]

\* the criteria type of the quest the sweep s is validating
currentType(s) == activeQuests[s][idx[s]].criteria.type

\* C1: a sweep over the active quests ends only after validateSingleQuest
\* was called for the last of them: no failure while validating a quest
\* (a rejection of a result-store operation included) keeps the remaining
\* quests of the sweep from being validated.
C1_QuestFailureNeverAbortsSweep ==
  [][\A s \in SweepIds :
       (pc[s] # "idle" /\ pc'[s] = "idle") => idx[s] = Len(activeQuests[s])]_vars

\* C2: when the upstream requests of a quest's validation fail, the final
\* write of the run's record sets status failed and nextValidationAt to
\* now + ERROR_INTERVAL, strictly later than now + SUCCESS_INTERVAL.
C2_UpstreamFailureBacksOff ==
  [][\A s \in SweepIds :
       LET id == run[s].validationId
       IN  (run[s].caught /\ recordWritten(id))
             => /\ validations'[id].status = "failed"
                /\ validations'[id].nextValidationAt =
                     finishedAt(validations'[id]) + VALIDATION_FREQUENCY_ERROR
                /\ validations'[id].nextValidationAt >
                     finishedAt(validations'[id]) + VALIDATION_FREQUENCY_SUCCESS]_vars

\* the latest validation record of the quest, whichever the query answers
\* with, has a nextValidationAt later than the current time
nextValidationInFuture(questId) ==
  \A last \in getLatestQuestValidation(questId) :
    last # 0 /\ validations[last].nextValidationAt > now

\* C3: skip rule: when validateSingleQuest reads a latest record whose
\* nextValidationAt is later than the current time, the call ends there: it
\* creates no validation record, writes no result row, executes no query
\* (zero Data Client calls) and the sweep is past the quest.
C3_SkipRule ==
  [][\A s \in SweepIds :
       (/\ pc[s] = "gate"
        /\ nextValidationInFuture(activeQuests[s][idx[s]].id)
        /\ Stepped(s))
         => /\ validations' = validations
            /\ results' = results
            /\ run'[s].executed = "none"
            /\ run'[s].validationId = 0
            /\ pc'[s] \in {"gate", "idle"}
            /\ (pc'[s] = "gate" => idx'[s] = idx[s] + 1)]_vars

W_C3_Skipped ==
  \E s \in SweepIds :
    /\ logged[s] = "skipped"
    /\ \E i \in 1..Len(validations) :
         validations[i] # Deleted /\ validations[i].nextValidationAt > now

\* C4: a validation record is created pending, with no nextValidationAt and
\* no addresses; a write to a record moves it from pending to success, failed
\* or partial; and a record that has left pending is never written again
\* (it stays as it is until its quest is deleted).
C4_PendingThenTerminal ==
  [][/\ Len(validations') >= Len(validations)
     /\ \A i \in 1..Len(validations) :
          /\ validations[i] = Deleted => validations'[i] = Deleted
          /\ (validations[i] # Deleted /\ validations'[i] # Deleted) =>
               /\ validations[i].status # "pending" => validations'[i] = validations[i]
               /\ validations'[i] # validations[i] =>
                    validations'[i].status \in {"success", "failed", "partial"}
     /\ \A i \in (Len(validations) + 1)..Len(validations') :
          /\ validations'[i].status = "pending"
          /\ validations'[i].nextValidationAt = NoDate
          /\ validations'[i].validAddresses = <<>>]_vars

W_C4_TerminalThenLaterRun ==
  \E i, j \in 1..Len(validations) :
    /\ i < j
    /\ validations[i] # Deleted
    /\ validations[j] # Deleted
    /\ validations[i].questId = validations[j].questId
    /\ validations[i].status # "pending"
    /\ validations[j].status # "pending"

\* C5 as stated: when the query of a run executed without throwing, the
\* write to the run's record sets success iff the result is satisfied,
\* failed otherwise, and nextValidationAt = now + SUCCESS_INTERVAL.
C5_ExecutedEndsOnSuccessInterval ==
  [][\A s \in SweepIds :
       LET id == run[s].validationId
       IN  (run[s].executed # "none" /\ recordWritten(id))
             => /\ validations'[id].status =
                     (IF run[s].satisfied THEN "success" ELSE "failed")
                /\ validations'[id].nextValidationAt =
                     finishedAt(validations'[id]) + VALIDATION_FREQUENCY_SUCCESS]_vars

\* C5 amended: when the query of a run executed without throwing and no
\* result-store write of the run was rejected, the run ends by writing the
\* record (unless it was deleted meanwhile): success iff the result is
\* satisfied, failed otherwise, the addresses of the matches, and
\* nextValidationAt = now + SUCCESS_INTERVAL, now being the clock read when
\* the update was called.
C5_ExecutedAndStoredEndsOnSuccessInterval ==
  [][\A s \in SweepIds :
       LET id == run[s].validationId
       IN  /\ (run[s].executed # "none" /\ run[s].errorMessage = NoMessage
               /\ recordWritten(id))
                => /\ validations'[id].status =
                        (IF run[s].satisfied THEN "success" ELSE "failed")
                   /\ validations'[id].validAddresses =
                        validAddressesOf(run[s].processed)
                   /\ finishedAt(validations'[id]) = run[s].updateAt
                   /\ run[s].updateAt <= now
                   /\ validations'[id].nextValidationAt =
                        run[s].updateAt + VALIDATION_FREQUENCY_SUCCESS
           /\ (pc[s] = "update" /\ Stepped(s))
                => \/ recordWritten(id)
                   \/ validations[id] = Deleted /\ validations' = validations
                   \/ pc'[s] = "catch" /\ run'[s].errorMessage = DbError]_vars

W_C5_Success ==
  \E i \in 1..Len(validations) :
    /\ validations[i] # Deleted
    /\ validations[i].status = "success"
    /\ validations[i].validAddresses # <<>>
    /\ validations[i].nextValidationAt =
         finishedAt(validations[i]) + VALIDATION_FREQUENCY_SUCCESS

\* C6 as stated: the run of a quest whose criteria type the runner does not
\* support ends, without failing the sweep, with its record in status failed,
\* carrying the error message and nextValidationAt = now + ERROR_INTERVAL.
C6_UnsupportedEndsFailed ==
  [][\A s \in SweepIds :
       (/\ pc[s] = "catch" /\ currentType(s) \notin supportedTypes /\ Stepped(s)
        /\ validations'[run[s].validationId] # Deleted)
         => LET v == validations'[run[s].validationId]
            IN  /\ response'[s] # 500
                /\ v.status = "failed"
                /\ v.errorMessage = Unsupported(currentType(s))
                /\ v.nextValidationAt =
                     finishedAt(v) + VALIDATION_FREQUENCY_ERROR]_vars

\* C6 amended: an unsupported criteria type throws into the inner catch
\* block, as any other error; the sweep is not failed by it; and when the
\* update of the catch block is not rejected the run ends with the record
\* (unless it was deleted meanwhile) in status failed, carrying the error
\* message and nextValidationAt = now + ERROR_INTERVAL, now being the clock
\* read in the catch block (when it is rejected the record stays pending).
C6_UnsupportedTakesErrorPath ==
  [][\A s \in SweepIds :
       /\ (pc[s] = "execute" /\ currentType(s) \notin supportedTypes /\ Stepped(s))
            => /\ pc'[s] = "catch"
               /\ run'[s].errorMessage = Unsupported(currentType(s))
               /\ run'[s].catchAt = now
               /\ run'[s].executed = "none"
               /\ UNCHANGED <<validations, results>>
       /\ (pc[s] = "catch" /\ currentType(s) \notin supportedTypes /\ Stepped(s))
            => LET id == run[s].validationId
               IN  /\ response'[s] # 500
                   /\ pc'[s] \in {"gate", "idle"}
                   /\ \/ /\ validations'[id] = validations[id]
                         /\ \/ validations[id] = Deleted
                            \/ validations[id].status = "pending"
                      \/ /\ validations'[id].status = "failed"
                         /\ validations'[id].errorMessage = Unsupported(currentType(s))
                         /\ finishedAt(validations'[id]) = run[s].catchAt
                         /\ validations'[id].nextValidationAt =
                              run[s].catchAt + VALIDATION_FREQUENCY_ERROR]_vars

W_C6_UnsupportedFailed ==
  \E i \in 1..Len(validations) :
    /\ validations[i] # Deleted
    /\ validations[i].validationData.criteria.type \notin supportedTypes
    /\ validations[i].status = "failed"
    /\ validations[i].errorMessage =
         Unsupported(validations[i].validationData.criteria.type)
    /\ validations[i].nextValidationAt =
         finishedAt(validations[i]) + VALIDATION_FREQUENCY_ERROR

\* C7: for every criteria type a quest can store, the switch of the runner
\* builds the query of that type and executes it.
C7_EveryStorableTypeExecuted ==
  [][\A s \in SweepIds :
       (pc[s] = "execute" /\ currentType(s) \in criteriaSchema /\ Stepped(s))
         => run'[s].executed = currentType(s)]_vars

\* the result rows of the validation record i
rowsOf(table, i) == SelectSeq(table, LAMBDA row : row.validationId = i)

\* the validation records i, j of the table are records of the same quest
liveOfOneQuest(table, i, j) ==
  /\ table[i] # Deleted
  /\ table[j] # Deleted
  /\ table[i].questId = table[j].questId

\* C9: a validation record is created only for a quest whose status is
\* active at that time: never for a draft quest, nor after the status was
\* set to completed or archived.
C9_OnlyActiveQuestsValidated ==
  [][\A i \in (Len(validations) + 1)..Len(validations') :
       quests[validations'[i].questId].status = "active"]_vars

(***************************************************************************)
(* Properties of the combinators.                                          *)
(***************************************************************************)
\* no two entries of the matches share a non-empty tx_id
noRepeatedTxId(matches) ==
  \A i, j \in 1..Len(matches) :
    (i < j /\ matches[i].tx_id # "") => matches[i].tx_id # matches[j].tx_id

\* C10: the matches of or(A, B) hold no two entries with the same non-empty
\* tx_id, whatever A and B hold.
C10_OrMatchesUnique ==
  combinator = "or" => noRepeatedTxId(combined.matches)

W_C10_OrOverRepeatedIds ==
  /\ combinator = "or"
  /\ ~noRepeatedTxId(leftResult.matches)
  /\ ~noRepeatedTxId(leftResult.matches \o rightResult.matches)
  /\ Len(combined.matches) = 2

\* the matches of both operands of the combinator, left then right
operandMatches == leftResult.matches \o rightResult.matches

\* the first entry of matches that carries the tx_id id
firstWithTxId(matches, id) ==
  matches[CHOOSE k \in 1..Len(matches) :
            /\ matches[k].tx_id = id
            /\ \A j \in 1..(k - 1) : matches[j].tx_id # id]

\* C11: the matches of or(A, B) are the union of the matches of A and B
\* de-duplicated strictly by tx_id: exactly one entry for every non-empty
\* tx_id of A or B, the first in left-then-right order, and every match of
\* A or B that lacks a tx_id is kept.
C11_OrKeepsEveryDistinctMatch ==
  combinator = "or" =>
    /\ \A i \in 1..Len(operandMatches) :
         LET match == operandMatches[i]
         IN  IF match.tx_id # ""
               THEN /\ Cardinality({k \in 1..Len(combined.matches) :
                                      combined.matches[k].tx_id = match.tx_id}) = 1
                    /\ \E k \in 1..Len(combined.matches) :
                         combined.matches[k] =
                           firstWithTxId(operandMatches, match.tx_id)
               ELSE \E k \in 1..Len(combined.matches) :
                      combined.matches[k] = match
    /\ \A k \in 1..Len(combined.matches) :
         \E i \in 1..Len(operandMatches) : combined.matches[k] = operandMatches[i]

\* C12: and(A, B) is satisfied only when A is satisfied, B is satisfied and
\* the matches of and(A, B) are not empty; with an empty intersection it is
\* not satisfied, also when both operands are.
C12_AndSatisfiedNeedsIntersection ==
  combinator = "and" =>
    /\ combined.satisfied =>
         /\ leftResult.satisfied
         /\ rightResult.satisfied
         /\ combined.matches # <<>>
    /\ combined.matches = <<>> => ~combined.satisfied

W_C12_SatisfiedOperandsEmptyIntersection ==
  /\ combinator = "and"
  /\ leftResult.satisfied /\ leftResult.matches # <<>>
  /\ rightResult.satisfied /\ rightResult.matches # <<>>
  /\ combined.matches = <<>>
  /\ ~combined.satisfied

\* C13: the matches of and(A, B) are exactly the matches l of A for which
\* some match r of B has the same tx_id or, only when l or r lacks a tx_id,
\* the same user_address: two matches that carry different tx_ids are never
\* taken as equal.
C13_AndIntersectsByIdElseAddress ==
  combinator = "and" =>
    LET sameByIdElseAddress(l, r) ==
          \/ l.tx_id # "" /\ r.tx_id # "" /\ l.tx_id = r.tx_id
          \/ /\ l.tx_id = "" \/ r.tx_id = ""
             /\ l.user_address # "" /\ r.user_address # ""
             /\ l.user_address = r.user_address
    IN  combined.matches =
          SelectSeq(leftResult.matches,
                    LAMBDA l : \E k \in 1..Len(rightResult.matches) :
                                 sameByIdElseAddress(l, rightResult.matches[k]))

\* C14: not(A) has no matches and is satisfied exactly when A is not,
\* whatever the matches of A are.
C14_NotNegatesAndDropsMatches ==
  combinator = "not" =>
    /\ combined.matches = <<>>
    /\ combined.satisfied = ~leftResult.satisfied

W_C14_NotOfSatisfiedWithMatches ==
  /\ combinator = "not"
  /\ leftResult.satisfied
  /\ leftResult.matches # <<>>
  /\ ~combined.satisfied
  /\ combined.matches = <<>>

(***************************************************************************)
(* Nested combinators: createBaseValidator (kraxel-validation.ts 33-42)    *)
(* gives every query, the result of a combinator included, the methods     *)
(* and, or, not, so the result of a combinator is an operand of the next.  *)
(* The primitives at the leaves resolve to results without a repeated      *)
(* tx_id; calls counts the leaves under a result.                          *)
(***************************************************************************)
\* matches of the primitives at the leaves
NestTxs ==
  {Tx("t1", "a1", 10, 1000, <<>>), Tx("t2", "a1", 10, 1000, <<>>),
   Tx("t1", "a2", 10, 1000, <<>>), Tx("", "a2", 10, 1000, <<>>)}

\* what a primitive query can resolve to: no two matches share a tx_id
PrimitiveResults ==
  {ValidationResult(sat, ms, 1, FALSE) :
     sat \in BOOLEAN,
     ms \in {m \in SeqsUpTo(NestTxs, MaxMatches) : noRepeatedTxId(m)}}

InitNest ==
  /\ RunnerIdle(<<>>, <<>>)
  /\ PrimIdle
  /\ SideIdle
  /\ leftResult \in PrimitiveResults
  /\ rightResult \in PrimitiveResults
  /\ combinator = "none"
  /\ combined = ValidationResult(FALSE, <<>>, 0, FALSE)

\* kraxel-validation.ts 33-42: validator.and(query), validator.or(query),
\* validator.not() on the query a combinator returned: its result is the
\* left or the right operand of the next combinator, the other operand is
\* a primitive
Nest ==
  /\ combinator # "none"
  /\ combined.calls < MaxLeaves
  /\ \E leaf \in PrimitiveResults, side \in {"left", "right"} :
       /\ leftResult' = (IF side = "left" THEN combined ELSE leaf)
       /\ rightResult' = (IF side = "left" THEN leaf ELSE combined)
  /\ combinator' = "none"
  /\ combined' = ValidationResult(FALSE, <<>>, 0, FALSE)
  /\ UNCHANGED <<runnerVars, primVars, sideVars>>

NextNest ==
  \/ ExecuteOr
  \/ ExecuteAnd
  \/ ExecuteNot
  \/ Nest

SpecNest == InitNest /\ [][NextNest]_vars

\* C15: when the result of every primitive has no two matches with the same
\* tx_id, the result of any nesting of and, or, not over the primitives has
\* no two matches with the same tx_id.
C15_CompositionKeepsTxIdsUnique ==
  /\ noRepeatedTxId(leftResult.matches)
  /\ noRepeatedTxId(rightResult.matches)
  /\ combinator # "none" => noRepeatedTxId(combined.matches)

W_C15_NestedAndWithTwoMatches ==
  /\ combinator = "and"
  /\ leftResult.calls >= 2
  /\ combined.calls >= 3
  /\ Len(combined.matches) = 2

(***************************************************************************)
(* Primitive queries over arguments and upstream answers drawn from a      *)
(* bounded universe.                                                       *)
(***************************************************************************)
\* Transactions the upstream returns.  Target token T: S1 and S2 by the
\* same address in the same block, S2 earlier and of higher value; S3 by a
\* second address in a later block; S4 with T as the output of a non-final
\* leg and the input of the final one; S5 without user_address; S6 without
\* swap_details.  Welsh token: W1 names the requested contract (with a
\* sub-token suffix), W2 the canonical one.
Sample ==
  [S1 |-> Tx("s1", "X", 10, 2000, <<Leg("U", 1, "T", 1)>>),
   S2 |-> Tx("s2", "X", 10, 1000, <<Leg("U", 3, "T::t", 3)>>),
   S3 |-> Tx("s3", "Y", 20, 1000, <<Leg("U", 1, "T", 1)>>),
   S4 |-> Tx("s4", "Y", 5, 3000, <<Leg("U", 1, "T", 1), Leg("T", 1, "U", 1)>>),
   S5 |-> Tx("s5", "", 1, 1000, <<Leg("U", 1, "T", 1)>>),
   S6 |-> Tx("s6", "Z", 10, 1000, <<>>),
   W1 |-> Tx("w1", "X", 10, 1000, <<Leg("U", 1, "SP1.Welsh-Token::w", 1)>>),
   W2 |-> Tx("w2", "Y", 10, 1000, <<Leg("U", 1, WELSH_CANONICAL, 1)>>)]

PrimTxs == {Sample[k] : k \in DOMAIN Sample}

\* the arguments of a primitive query: tokenPrincipal, n, minValueUsd and
\* the time window startTime, endTime (0: the default startTime, no endTime);
\* a window with a timestamp that cannot be converted comes with n = 1 and
\* minValueUsd = 0
PrimPrincipals == {"T", " T ", "SP1.Welsh-Token"}

PrimArgs ==
  [tokenPrincipal : PrimPrincipals, n : 0..MaxN, minValueUsd : {0, 2},
   startTime : {0}, endTime : {0}]
  \cup
  [tokenPrincipal : PrimPrincipals, n : {1}, minValueUsd : {0},
   startTime : {0, 100000001}, endTime : {0, 100000001}]

\* A primitive requests lists from one endpoint only (swappedFor and
\* firstNBuyers the swaps of a contract, minValueSwap the recent swaps,
\* holdsToken the transfers of a contract), so one pair of answers serves
\* for the endpoint the executed primitive requests.
PrimUpstream(first, second, prices) ==
  [swapsByContract |->
     [c \in Contracts |-> IF c = WELSH_CANONICAL THEN second ELSE first],
   recentSwaps |-> first,
   latestPrices |-> prices,
   tokenTransfers |->
     [c \in Contracts |-> IF c = WELSH_CANONICAL THEN second ELSE first]]

\* the answers of getSwapsByContract (FirstAnswers for the contract as
\* given, SecondAnswers for the canonical Welsh contract) and of
\* getLatestPrices (PriceAnswers: a failure, a price of 1 for every asset,
\* or a price of 1 for the asset T::t and none for any other asset; 0 is
\* what  priceData[asset] || 0  gives for an asset without a price)
InitPrim ==
  /\ RunnerIdle(<<>>, <<>>)
  /\ CombIdle
  /\ SideIdle
  /\ args \in PrimArgs
  /\ LET FirstAnswers ==
           {Response(FALSE, <<>>)} \cup
           {Response(TRUE, swaps) : swaps \in SeqsUpTo(PrimTxs, MaxSwaps)}
         SecondAnswers ==
           {Response(FALSE, <<>>), Response(TRUE, <<>>),
            Response(TRUE, <<Sample.W2>>),
            Response(TRUE, <<Sample.W1, Sample.W2>>)}
         PriceAnswers ==
           {Response(FALSE, [a \in Assets |-> 0]),
            Response(TRUE, [a \in Assets |-> 1]),
            Response(TRUE, [a \in Assets |-> IF a = "T::t" THEN 1 ELSE 0])}
     IN  \E first \in FirstAnswers, second \in SecondAnswers,
            prices \in PriceAnswers :
           upstream = PrimUpstream(first, second, prices)
  /\ primitive = "none"
  /\ outcome = ValidationResult(FALSE, <<>>, 0, FALSE)

\* kraxel-validation.ts 171-225: execute() of
\* swappedFor(tokenPrincipal, startTime, endTime)
ExecuteSwappedFor ==
  /\ primitive = "none"
  /\ primitive' = "swappedFor"
  /\ outcome' = swappedFor(args.tokenPrincipal, args.startTime, args.endTime,
                          upstream)
  /\ UNCHANGED <<args, upstream, runnerVars, combVars, sideVars>>

\* kraxel-validation.ts 301-380: execute() of
\* firstNBuyers(tokenPrincipal, n, minValueUsd, startTime)
ExecuteFirstNBuyers ==
  /\ primitive = "none"
  /\ primitive' = "firstNBuyers"
  /\ outcome' = firstNBuyers(args.tokenPrincipal, args.n, args.minValueUsd,
                            args.startTime, upstream)
  /\ UNCHANGED <<args, upstream, runnerVars, combVars, sideVars>>

\* kraxel-validation.ts 242-284: execute() of minValueSwap(minValueUsd)
\* with the default getTransactions
ExecuteMinValueSwap ==
  /\ primitive = "none"
  /\ primitive' = "minValueSwap"
  /\ outcome' = minValueSwap(args.minValueUsd, upstream)
  /\ UNCHANGED <<args, upstream, runnerVars, combVars, sideVars>>

\* kraxel-validation.ts 393-434: execute() of
\* holdsToken(userAddress, tokenPrincipal); the transfers the upstream
\* answers are those of userAddress
ExecuteHoldsToken ==
  /\ primitive = "none"
  /\ primitive' = "holdsToken"
  /\ outcome' = holdsToken("X", args.tokenPrincipal, upstream)
  /\ UNCHANGED <<args, upstream, runnerVars, combVars, sideVars>>

NextPrim ==
  \/ ExecuteSwappedFor
  \/ ExecuteFirstNBuyers
  \/ ExecuteMinValueSwap
  \/ ExecuteHoldsToken

SpecPrim == InitPrim /\ [][NextPrim]_vars

(***************************************************************************)
(* Properties of the primitives.                                           *)
(***************************************************************************)
\* the entries of a sequence, as a set
Range(seq) == {seq[k] : k \in 1..Len(seq)}

Min(a, b) == IF a <= b THEN a ELSE b

\* no two entries of the matches have the same user_address
noRepeatedAddress(matches) ==
  \A i, j \in 1..Len(matches) :
    i < j => matches[i].user_address # matches[j].user_address

\* C16: for every n >= 0 and whatever was fetched, firstNBuyers returns at
\* most n matches and no two of them have the same user_address.
C16_AtMostNUniqueBuyers ==
  primitive = "firstNBuyers" =>
    /\ Len(outcome.matches) <= args.n
    /\ noRepeatedAddress(outcome.matches)

\* the swaps firstNBuyers picks the buyers from: the matches of swappedFor,
\* narrowed to those of value >= minValueUsd when minValueUsd > 0
buyerCandidates ==
  LET swapResult == swappedFor(args.tokenPrincipal, args.startTime, 0, upstream)
  IN  IF args.minValueUsd > 0
        THEN SelectSeq(swapResult.matches,
                       LAMBDA swap :
                         swapValue(swap.swap_details, 1, upstream.latestPrices.data)
                           >= args.minValueUsd)
        ELSE swapResult.matches

\* a is not later than b in the order (block_height, then block_time)
notLater(a, b) ==
  \/ a.block_height < b.block_height
  \/ a.block_height = b.block_height /\ a.block_time <= b.block_time

\* C17: over candidates sorted by (block_height, then block_time) ascending,
\* firstNBuyers returns in that order the earliest transaction of each
\* distinct user_address, cut to the first n addresses; it is satisfied
\* exactly when n distinct addresses were found.
C17_EarliestPerAddressInOrder ==
  (primitive = "firstNBuyers" /\ ~outcome.caught /\ buyerCandidates # <<>>) =>
    LET candidates == Range(buyerCandidates)
        addresses == {c.user_address : c \in candidates} \ {""}
        m == outcome.matches
        taken == {m[k].user_address : k \in 1..Len(m)}
    IN  /\ Len(m) = Min(args.n, Cardinality(addresses))
        /\ \A k \in 1..Len(m) :
             /\ m[k] \in candidates
             /\ m[k].user_address # ""
             /\ \A c \in candidates :
                  c.user_address = m[k].user_address => notLater(m[k], c)
        /\ \A j, k \in 1..Len(m) :
             j < k => /\ m[j].user_address # m[k].user_address
                      /\ notLater(m[j], m[k])
        /\ \A c \in candidates :
             (c.user_address # "" /\ c.user_address \notin taken)
               => \A k \in 1..Len(m) : notLater(m[k], c)
        /\ outcome.satisfied = (Cardinality(addresses) >= args.n)

\* C18: firstNBuyers fails closed.  When swappedFor finds no swap the result
\* is unsatisfied without matches and nothing more is requested; when
\* minValueUsd > 0 the narrowing is over the swaps swappedFor fetched, at the
\* cost of the one prices request and no further swap request, and when no
\* fetched swap reaches minValueUsd the result is unsatisfied without matches.
C18_FirstNBuyersFailsClosed ==
  primitive = "firstNBuyers" =>
    LET swapResult == swappedFor(args.tokenPrincipal, args.startTime, 0, upstream)
    IN  /\ swapResult.matches = <<>> =>
             /\ ~outcome.satisfied
             /\ outcome.matches = <<>>
             /\ outcome.calls = swapResult.calls
        /\ (args.minValueUsd > 0 /\ swapResult.matches # <<>>) =>
             /\ outcome.calls = swapResult.calls + 1
             /\ Range(outcome.matches) \subseteq Range(buyerCandidates)
             /\ buyerCandidates = <<>> =>
                  /\ ~outcome.satisfied
                  /\ outcome.matches = <<>>

W_C18_NoSwapReachesMinimum ==
  /\ primitive = "firstNBuyers"
  /\ args.minValueUsd > 0
  /\ upstream.latestPrices.ok
  /\ swappedFor(args.tokenPrincipal, args.startTime, 0, upstream).matches # <<>>
  /\ buyerCandidates = <<>>
  /\ ~outcome.satisfied
  /\ outcome.matches = <<>>

\* the matches of the k-th variant of the requested token: the swaps of the
\* answer to the k-th request that are swaps for that variant
variantMatches(k) ==
  LET tokenVariant == normalizeTokenPrincipal(args.tokenPrincipal)[k]
  IN  SelectSeq(upstream.swapsByContract[tokenVariant].data,
                LAMBDA swap : isSwapFor(swap, tokenVariant))

\* C19: swappedFor queries the variants in order and stops at the first one
\* with a match: the matches are those of that one variant, the number of
\* requests is its position, and when nothing was thrown and there is no
\* match every variant was queried; satisfied is true exactly when there is
\* a match.
C19_FirstVariantWithMatchWins ==
  primitive = "swappedFor" =>
    LET variants == normalizeTokenPrincipal(args.tokenPrincipal)
        hits == {k \in 1..Len(variants) : variantMatches(k) # <<>>}
    IN  /\ outcome.satisfied = (outcome.matches # <<>>)
        /\ outcome.calls \in 0..Len(variants)
        /\ \A k \in 1..(outcome.calls - 1) : k \notin hits
        /\ outcome.matches # <<>> => outcome.matches = variantMatches(outcome.calls)
        /\ ~outcome.caught =>
             /\ outcome.calls >= 1
             /\ outcome.matches = variantMatches(outcome.calls)
             /\ \A k \in 1..(outcome.calls - 1) : k \notin hits
             /\ outcome.calls \in hits \/ (hits = {} /\ outcome.calls = Len(variants))

W_C19_StopsBeforeSecondVariant ==
  /\ primitive = "swappedFor"
  /\ Len(normalizeTokenPrincipal(args.tokenPrincipal)) = 2
  /\ variantMatches(1) # <<>>
  /\ variantMatches(2) # <<>>
  /\ outcome.calls = 1
  /\ outcome.matches = variantMatches(1)

\* C20: a match of swappedFor has swap_details, and the output asset of its
\* last leg, cut at '::', is the variant under test; a transaction with the
\* target only as the output of a non-final leg or as an input is no match.
C20_MatchesByLastLegOutput ==
  primitive = "swappedFor" =>
    \A k \in 1..Len(outcome.matches) :
      LET match == outcome.matches[k]
          legs == match.swap_details
      IN  /\ legs # <<>>
          /\ splitBase(legs[Len(legs)].out_asset) =
               normalizeTokenPrincipal(args.tokenPrincipal)[outcome.calls]

W_C20_NonFinalLegNotMatched ==
  /\ primitive = "swappedFor"
  /\ args.tokenPrincipal = "T"
  /\ upstream.swapsByContract["T"].ok
  /\ {Sample.S4, Sample.S6, Sample.S2} \subseteq Range(upstream.swapsByContract["T"].data)
  /\ outcome.matches = <<Sample.S2>>

\* the USD value of a leg: the greater of the input side and the output
\* side, each its amount times the price of its asset (0 without a price)
legValue(detail, priceData) ==
  Max(detail.in_amount * priceData[detail.in_asset],
      detail.out_amount * priceData[detail.out_asset])

\* the USD value of a transaction: the sum of the values of its legs
txValue(swap, priceData) ==
  LET legs == swap.swap_details
      sum[k \in 0..Len(legs)] ==
        IF k = 0 THEN 0 ELSE sum[k - 1] + legValue(legs[k], priceData)
  IN  sum[Len(legs)]

\* neither asset of any leg of the transaction has a price
noKnownPrice(swap, priceData) ==
  \A k \in 1..Len(swap.swap_details) :
    /\ priceData[swap.swap_details[k].in_asset] = 0
    /\ priceData[swap.swap_details[k].out_asset] = 0

\* C21: minValueSwap values a transaction as the sum over its legs of
\* max(in_amount * in_price, out_amount * out_price), a missing price being
\* 0, and keeps exactly the transactions of value >= minValueUsd, in their
\* order; a transaction without any known price is left out for every
\* positive minValueUsd, and nothing is thrown for it.
C21_MinValueSwapKeepsByLegValues ==
  (/\ primitive = "minValueSwap"
   /\ upstream.recentSwaps.ok
   /\ upstream.latestPrices.ok) =>
    LET priceData == upstream.latestPrices.data
    IN  /\ ~outcome.caught
        /\ outcome.matches =
             SelectSeq(upstream.recentSwaps.data,
                       LAMBDA swap : txValue(swap, priceData) >= args.minValueUsd)
        /\ outcome.satisfied = (outcome.matches # <<>>)
        /\ \A k \in 1..Len(outcome.matches) :
             args.minValueUsd > 0 => ~noKnownPrice(outcome.matches[k], priceData)

W_C21_UnpricedSwapLeftOut ==
  /\ primitive = "minValueSwap"
  /\ args.minValueUsd > 0
  /\ upstream.latestPrices.ok
  /\ upstream.recentSwaps.ok
  /\ Range(upstream.recentSwaps.data) = {Sample.S1, Sample.S2}
  /\ noKnownPrice(Sample.S1, upstream.latestPrices.data)
  /\ outcome.matches = <<Sample.S2>>
  /\ ~outcome.caught

\* the transfers of the k-th variant of the requested token
variantTransfers(k) ==
  upstream.tokenTransfers[normalizeTokenPrincipal(args.tokenPrincipal)[k]].data

\* C22: holdsToken queries the variants in order and is satisfied with the
\* transfers of the first variant that returns any, without querying a later
\* one; when no variant returns a transfer it is unsatisfied without matches.
C22_FirstVariantWithTransfersWins ==
  (primitive = "holdsToken" /\ ~outcome.caught) =>
    LET variants == normalizeTokenPrincipal(args.tokenPrincipal)
        hits == {k \in 1..Len(variants) : variantTransfers(k) # <<>>}
    IN  /\ outcome.calls \in 1..Len(variants)
        /\ \A k \in 1..(outcome.calls - 1) : k \notin hits
        /\ IF hits # {}
             THEN /\ outcome.calls \in hits
                  /\ outcome.satisfied
                  /\ outcome.matches = variantTransfers(outcome.calls)
             ELSE /\ outcome.calls = Len(variants)
                  /\ ~outcome.satisfied
                  /\ outcome.matches = <<>>

W_C22_StopsAtFirstVariantWithTransfers ==
  /\ primitive = "holdsToken"
  /\ Len(normalizeTokenPrincipal(args.tokenPrincipal)) = 2
  /\ variantTransfers(1) # <<>>
  /\ variantTransfers(2) # <<>>
  /\ variantTransfers(1) # variantTransfers(2)
  /\ outcome.satisfied
  /\ outcome.calls = 1
  /\ outcome.matches = variantTransfers(1)

\* the answers to the requests for the swaps of the variants, in order
swapAnswers ==
  LET variants == normalizeTokenPrincipal(args.tokenPrincipal)
  IN  [k \in 1..Len(variants) |-> upstream.swapsByContract[variants[k]]]

\* Some request the executed primitive made to the Data Client has failed.
\* A request for the list of a variant was made and failed when the answer
\* for the k-th variant is a failure and every earlier variant was answered
\* without a hit (hits = the positions whose answer lets the loop stop);
\* swappedFor makes no request when a timestamp of its window does not
\* convert.
failedCallMade ==
  LET variants == normalizeTokenPrincipal(args.tokenPrincipal)
      converts(endTime) ==
        ~toISOStringThrows(args.startTime) /\ ~toISOStringThrows(endTime)
      transferAnswers ==
        [k \in 1..Len(variants) |-> upstream.tokenTransfers[variants[k]]]
      listRequestFailed(answers, hits) ==
        \E k \in 1..Len(answers) :
          /\ ~answers[k].ok
          /\ \A j \in 1..(k - 1) : answers[j].ok /\ j \notin hits
      swapHits == {k \in 1..Len(swapAnswers) : variantMatches(k) # <<>>}
      transferHits == {k \in 1..Len(transferAnswers) : variantTransfers(k) # <<>>}
      swapsFailed == listRequestFailed(swapAnswers, swapHits)
  IN  CASE primitive = "swappedFor" -> converts(args.endTime) /\ swapsFailed
        [] primitive = "holdsToken" -> listRequestFailed(transferAnswers, transferHits)
        [] primitive = "minValueSwap" ->
             ~upstream.recentSwaps.ok \/ ~upstream.latestPrices.ok
        [] primitive = "firstNBuyers" ->
             /\ converts(0)
             /\ \/ swapsFailed
                \/ /\ swapHits # {}
                   /\ args.minValueUsd > 0
                   /\ ~upstream.latestPrices.ok
        [] OTHER -> FALSE

\* C31: when a request made by swappedFor, minValueSwap, firstNBuyers or
\* holdsToken fails, the failure is caught and execute() resolves to an
\* unsatisfied result without matches.
C31_PrimitiveFailureResolvesUnsatisfied ==
  failedCallMade =>
    /\ outcome.caught
    /\ ~outcome.satisfied
    /\ outcome.matches = <<>>

W_C31_SecondVariantRequestFails ==
  /\ primitive = "swappedFor"
  /\ Len(swapAnswers) = 2
  /\ swapAnswers[1].ok
  /\ swapAnswers[1].data # <<>>
  /\ ~swapAnswers[2].ok
  /\ failedCallMade
  /\ outcome.calls = 2
  /\ outcome.caught
  /\ ~outcome.satisfied
  /\ outcome.matches = <<>>

(***************************************************************************)
(* Further properties of the runner.                                       *)
(***************************************************************************)
\* C25: when a Data Client request of a run failed after its retries, the
\* error is caught at the runner level: the final write of the run's record
\* sets status failed together with the error message, and the sweep is not
\* left by it.
C25_FetchFailureRecordedWithMessage ==
  [][\A s \in SweepIds :
       LET id == run[s].validationId
       IN  (run[s].caught /\ Stepped(s)) =>
             /\ response'[s] # 500
             /\ recordWritten(id) =>
                  /\ validations'[id].status = "failed"
                  /\ validations'[id].errorMessage # NoMessage]_vars

\* C26: a pending record has no nextValidationAt, and a pending record that
\* a finished run left behind does not block its quest: a sweep whose gate
\* reads it as the latest record of the quest does not skip the quest, and
\* its createQuestValidation adds a new pending record of that quest unless
\* the store rejects the operation.
C26_PendingRecordNeverBlocks ==
  /\ [](\A i \in 1..Len(validations) :
          (validations[i] # Deleted /\ validations[i].status = "pending") =>
            validations[i].nextValidationAt = NoDate)
  /\ [][\A s \in SweepIds :
          LET quest == activeQuests[s][idx[s]]
          IN  /\ (/\ pc[s] = "gate"
                  /\ Stepped(s)
                  /\ \A last \in getLatestQuestValidation(quest.id) :
                       last # 0 /\ validations[last].status = "pending")
                   => \/ pc'[s] = "create" /\ validations' = validations
                      \/ pc'[s] = "idle" /\ response'[s] = 500
              /\ (pc[s] = "create" /\ Stepped(s))
                   => \/ /\ Len(validations') = Len(validations) + 1
                         /\ SubSeq(validations', 1, Len(validations)) = validations
                         /\ validations'[Len(validations')].questId = quest.id
                         /\ validations'[Len(validations')].status = "pending"
                      \/ /\ validations' = validations
                         /\ logged'[s] = "create-failed"]_vars

W_C26_PendingRecordSuperseded ==
  \E i, j \in 1..Len(validations) :
    /\ i < j
    /\ liveOfOneQuest(validations, i, j)
    /\ validations[i].status = "pending"
    /\ validations[i].nextValidationAt = NoDate
    /\ \A s \in SweepIds : run[s].validationId # i

\* C27: a run whose query executed and whose writes succeeded has written
\* one result row per match, in match order, each with the run's
\* validationId, the criteria type of the quest and the user_address of the
\* match; and its record carries the user_address of every match in match
\* order as validAddresses.
C27_OneRowPerMatch ==
  [][\A s \in SweepIds :
       LET id == run[s].validationId
           matches == run[s].matches
       IN  /\ (pc[s] = "rows" /\ Stepped(s) /\ pc'[s] # "catch")
                => /\ run'[s].written = run[s].written + 1
                   /\ results' =
                        Append(results,
                               [validationId |-> id,
                                userAddress |-> matches[run'[s].written].user_address,
                                isValid |-> TRUE,
                                resultData |->
                                  [tx_id |-> matches[run'[s].written].tx_id,
                                   block_height |->
                                     matches[run'[s].written].block_height],
                                criteriaType |-> currentType(s)])
           /\ (pc[s] # "rows" /\ Stepped(s)) => results' = results
           /\ (pc[s] = "update" /\ recordWritten(id))
                => /\ run[s].written = Len(matches)
                   /\ validations'[id].validAddresses =
                        [k \in 1..Len(matches) |-> matches[k].user_address]]_vars

W_C27_TwoRowsForTwoMatches ==
  \E i \in 1..Len(validations) :
    /\ validations[i] # Deleted
    /\ validations[i].status = "success"
    /\ Len(validations[i].validAddresses) = 2
    /\ Len(rowsOf(results, i)) = 2
    /\ rowsOf(results, i)[1].userAddress = validations[i].validAddresses[1]
    /\ rowsOf(results, i)[2].userAddress = validations[i].validAddresses[2]
    /\ rowsOf(results, i)[1].userAddress # rowsOf(results, i)[2].userAddress

\* C28: a sweep processes its quests strictly one after another: every
\* write of a step of the sweep to the result store is for the quest the
\* sweep stands at, and the sweep moves to the next quest only from the end
\* of the run of the current one (a skip at the gate, a rejected create, the
\* final update or the catch block), with the locals of that run gone.
C28_OneQuestInProgress ==
  [][\A s \in SweepIds :
       (pc[s] # "idle" /\ Stepped(s)) =>
         LET quest == activeQuests[s][idx[s]]
         IN  /\ \A i \in 1..Len(validations') :
                  (i > Len(validations) \/ validations'[i] # validations[i])
                    => /\ validations'[i].questId = quest.id
                       /\ i = run'[s].validationId \/ i = run[s].validationId
             /\ \A k \in (Len(results) + 1)..Len(results') :
                  /\ results'[k].validationId = run[s].validationId
                  /\ validations[results'[k].validationId].questId = quest.id
             /\ (idx'[s] # idx[s] /\ pc'[s] # "idle")
                  => /\ idx'[s] = idx[s] + 1
                     /\ pc[s] \in {"gate", "create", "update", "catch"}
                     /\ pc'[s] = "gate"
                     /\ run'[s] = NoRun]_vars

W_C28_SecondQuestAfterFirst ==
  /\ Len(validations) = 2
  /\ validations[1] # Deleted
  /\ validations[2] # Deleted
  /\ validations[1].questId # validations[2].questId
  /\ validations[1].status # "pending"
  /\ idx[1] = 2
  /\ run[1].validationId = 2

\* sub can be had from seq by leaving entries out (Array.prototype.filter
\* keeps the order of the array it filters)
RECURSIVE isSubsequence(_, _)
isSubsequence(sub, seq) ==
  IF sub = <<>> THEN TRUE
  ELSE IF seq = <<>> THEN FALSE
  ELSE IF Head(sub) = Head(seq)
    THEN isSubsequence(Tail(sub), Tail(seq))
    ELSE isSubsequence(sub, Tail(seq))

\* C34: and(A, B) and and(B, A) agree on satisfied, and the matches of
\* and(A, B) are a subsequence of the matches of A, in A's order: every
\* entry is an entry of A.
C34_AndSymmetricInSatisfiedOnly ==
  combinator = "and" =>
    /\ combined.satisfied = and(rightResult, leftResult).satisfied
    /\ isSubsequence(combined.matches, leftResult.matches)
    /\ Range(combined.matches) \subseteq Range(leftResult.matches)

W_C34_SwappedOperandsOtherMatches ==
  /\ combinator = "and"
  /\ combined.satisfied
  /\ Len(leftResult.matches) = 2
  /\ Len(combined.matches) = 1
  /\ combined.matches[1] = leftResult.matches[2]
  /\ combined.matches[1] \notin Range(rightResult.matches)
  /\ and(rightResult, leftResult).satisfied
  /\ and(rightResult, leftResult).matches # combined.matches

\* C33: a validation record is pending exactly when its nextValidationAt is
\* unset; the statuses the runner writes are success and failed, never
\* partial; and the update that moves a record out of pending sets its
\* nextValidationAt.
C33_PendingIffNoNextValidation ==
  /\ [](\A i \in 1..Len(validations) :
          validations[i] # Deleted =>
            /\ validations[i].status \in {"pending", "success", "failed"}
            /\ validations[i].status = "pending" <=>
                 validations[i].nextValidationAt = NoDate)
  /\ [][\A i \in 1..Len(validations) :
          (/\ validations[i] # Deleted
           /\ validations'[i] # Deleted
           /\ validations[i].status = "pending"
           /\ validations'[i].status # "pending") =>
            /\ validations'[i].status \in {"success", "failed"}
            /\ validations[i].nextValidationAt = NoDate
            /\ validations'[i].nextValidationAt \in
                 {run[1].updateAt + VALIDATION_FREQUENCY_SUCCESS,
                  run[1].catchAt + VALIDATION_FREQUENCY_ERROR}]_vars

W_C33_FailedWithNextBesidePending ==
  /\ Len(validations) = 2
  /\ validations[1] # Deleted
  /\ validations[2] # Deleted
  /\ validations[1].status = "failed"
  /\ validations[1].errorMessage = DbError
  /\ validations[1].nextValidationAt # NoDate
  /\ validations[2].status = "pending"
  /\ validations[2].nextValidationAt = NoDate

(***************************************************************************)
(* The Data Client: one call of KraxelAPI.request (kraxel-api.ts 93-161).  *)
(* req.elapsed is the time since the call started, in milliseconds; the    *)
(* timer set by the call fires when it reaches defaultTimeout.  A fetch    *)
(* takes one of the latencies below and ends as a 2xx response with a JSON *)
(* body ("ok"), a non-2xx response ("http"), a network error ("network")   *)
(* or a body that is not JSON ("json"), unless the abort signal ends it    *)
(* first ("abort").                                                        *)
(***************************************************************************)
Latencies == {100, 1500, 4000, 12000}

FetchResults == {"ok", "http", "network", "json"}

\* kraxel-api.ts 154: 2 ** attempts * 100
backoffDelay(attempts) == (2 ^ attempts) * backoffUnit

\* kraxel-api.ts 158-160: finally { clearTimeout(timeoutId) }
clearTimeout(timer) == IF timer = "armed" THEN "cleared" ELSE timer

\* the catch block with the test for the last attempt one attempt late
failedAttemptOneMore(r, cause) ==
  LET attempts == r.attempts + 1
  IN  IF attempts > maxRetries
        THEN [r EXCEPT !.attempts = attempts, !.cause = cause, !.thrown = cause,
                       !.pc = "failed", !.timer = clearTimeout(r.timer)]
        ELSE [r EXCEPT !.attempts = attempts, !.cause = cause, !.pc = "backoff"]

\* kraxel-api.ts 147-155: the catch block of an attempt that threw cause
failedAttempt(r, cause) ==
  LET attempts == r.attempts + 1
  IN  IF attempts >= maxRetries
        THEN [r EXCEPT !.attempts = attempts, !.cause = cause, !.thrown = cause,
                       !.pc = "failed", !.timer = clearTimeout(r.timer)]
        ELSE [r EXCEPT !.attempts = attempts, !.cause = cause, !.pc = "backoff"]

\* the fetch in flight settling, with an abort ending the whole call at once
\* instead of counting as a failed attempt
fetchSettlesAbortFatal(r, latency, result) ==
  IF r.timer = "fired" \/ r.elapsed + latency >= defaultTimeout
    THEN [r EXCEPT !.elapsed = Max(r.elapsed, defaultTimeout), !.timer = "fired",
                   !.cause = "abort", !.thrown = "abort", !.pc = "failed"]
  ELSE IF result = "ok"
    THEN [r EXCEPT !.elapsed = r.elapsed + latency, !.pc = "returned",
                   !.timer = clearTimeout(r.timer)]
  ELSE failedAttempt([r EXCEPT !.elapsed = r.elapsed + latency], result)

\* the fetch in flight settling as if every attempt had an abort signal of
\* its own: an attempt started after the timer fired can still succeed
fetchSettlesFreshSignal(r, latency, result) ==
  IF r.timer = "armed" /\ r.elapsed + latency >= defaultTimeout
    THEN failedAttempt([r EXCEPT !.elapsed = defaultTimeout, !.timer = "fired"],
                       "abort")
  ELSE IF result = "ok"
    THEN [r EXCEPT !.elapsed = r.elapsed + latency, !.pc = "returned",
                   !.timer = clearTimeout(r.timer)]
  ELSE failedAttempt([r EXCEPT !.elapsed = r.elapsed + latency], result)

\* kraxel-api.ts 131-146: the fetch in flight settles.  With the signal
\* already aborted it rejects at once; when the timer fires before the
\* response is there, the fetch is aborted at that time; otherwise it ends
\* after its latency with its result
fetchSettles(r, latency, result) ==
  IF r.timer = "fired"
    THEN failedAttempt(r, "abort")
  ELSE IF r.elapsed + latency >= defaultTimeout
    THEN failedAttempt([r EXCEPT !.elapsed = defaultTimeout, !.timer = "fired"],
                       "abort")
  ELSE IF result = "ok"
    THEN [r EXCEPT !.elapsed = r.elapsed + latency, !.pc = "returned",
                   !.timer = clearTimeout(r.timer)]
  ELSE failedAttempt([r EXCEPT !.elapsed = r.elapsed + latency], result)

InitClient ==
  /\ RunnerIdle(<<>>, <<>>)
  /\ CombIdle
  /\ PrimIdle
  /\ req = NoRequest
  /\ join = NoJoin
  /\ http = NoHttp

\* kraxel-api.ts 93-131: request() sets the timer and starts the first fetch
Request ==
  /\ req.pc = "idle"
  /\ req' = [req EXCEPT !.pc = "fetching", !.timer = "armed", !.fetches = 1]
  /\ UNCHANGED <<runnerVars, combVars, primVars, join, http>>

\* kraxel-api.ts 131-155: the fetch in flight settles
FetchSettles ==
  /\ req.pc = "fetching"
  /\ \E latency \in Latencies, result \in FetchResults :
       req' = fetchSettles(req, latency, result)
  /\ UNCHANGED <<runnerVars, combVars, primVars, join, http>>

\* kraxel-api.ts 154 and 130-132: the backoff delay is over (the timer may
\* have fired meanwhile) and the loop starts the next fetch
BackoffEnds ==
  /\ req.pc = "backoff"
  /\ LET delay == backoffDelay(req.attempts)
         elapsed == req.elapsed + delay
     IN  req' = [req EXCEPT !.elapsed = elapsed,
                            !.timer = IF req.timer = "armed" /\ elapsed >= defaultTimeout
                                        THEN "fired" ELSE @,
                            !.waits = Append(@, delay),
                            !.pc = "fetching",
                            !.fetches = @ + 1]
  /\ UNCHANGED <<runnerVars, combVars, primVars, join, http>>

NextClient ==
  \/ Request
  \/ FetchSettles
  \/ BackoffEnds

SpecClient == InitClient /\ [][NextClient]_vars

\* C23: a call of request() makes at most 3 fetch attempts; after a failed
\* attempt that is not the last it waits a delay that grows exponentially
\* and tries again; a successful response is returned at once, without a
\* further attempt; after the last failed attempt it fails, without a wait,
\* with the error of that attempt.
C23_AtMostThreeAttemptsWithBackoff ==
  /\ [](/\ req.fetches <= maxRetries
        /\ req.attempts <= req.fetches
        /\ Len(req.waits) = Max(req.fetches - 1, 0)
        /\ \A k \in 1..Len(req.waits) :
             /\ req.waits[k] = (2 ^ k) * backoffUnit
             /\ k > 1 => req.waits[k] = 2 * req.waits[k - 1]
        /\ req.pc = "failed" =>
             /\ req.attempts = maxRetries
             /\ req.fetches = maxRetries
             /\ Len(req.waits) = maxRetries - 1
             /\ req.thrown = req.cause
             /\ req.cause \in {"http", "network", "json", "abort"}
        /\ req.pc = "returned" => req.thrown = "none")
  /\ [][/\ req.pc \in {"returned", "failed"} => req' = req
        /\ (req.pc = "fetching" /\ req'.pc = "returned") =>
             /\ req'.fetches = req.fetches
             /\ req'.attempts = req.attempts
             /\ req'.waits = req.waits
        /\ (req.pc = "fetching" /\ req'.pc = "failed") =>
             /\ req'.waits = req.waits
             /\ req'.elapsed <= Max(req.elapsed + 12000, defaultTimeout)]_vars

W_C23_FailedAfterThreeAttempts ==
  /\ req.pc = "failed"
  /\ req.fetches = 3
  /\ req.waits = <<200, 400>>
  /\ req.cause = "http"
  /\ req.thrown = "http"

\* C24: when the timer fires while a fetch is in flight, the fetch is
\* aborted and counts as one failed attempt, and the call goes on as after
\* any other failed attempt: it waits and tries again, or, if that was the
\* last attempt, fails with the abort error.
C24_TimeoutCountsAsFailedAttempt ==
  [][(req.pc = "fetching" /\ req.timer = "armed" /\ req'.timer = "fired") =>
       /\ req'.elapsed = defaultTimeout
       /\ req'.attempts = req.attempts + 1
       /\ req'.cause = "abort"
       /\ req'.fetches = req.fetches
       /\ req'.waits = req.waits
       /\ IF req.attempts + 1 >= maxRetries
            THEN req'.pc = "failed" /\ req'.thrown = "abort"
            ELSE req'.pc = "backoff" /\ req'.thrown = "none"]_vars

W_C24_AbortedInFlightThenRetried ==
  /\ req.timer = "fired"
  /\ req.cause = "abort"
  /\ req.pc = "fetching"
  /\ req.attempts = 1
  /\ req.fetches = 2
  /\ req.waits = <<200>>

\* C35: the timer is set once, when request() is called, and never again
\* for a later attempt; after it has fired every attempt of the call fails
\* with the abort, so the call does not return a response and ends in
\* failure; when request() has returned or thrown, the timer is not pending.
C35_OneTimerSharedByAttempts ==
  /\ [](/\ req.pc \in {"returned", "failed"} => req.timer \in {"cleared", "fired"}
        /\ req.pc \in {"fetching", "backoff"} => req.timer \in {"armed", "fired"}
        /\ req.timer = "fired" =>
             /\ req.pc # "returned"
             /\ req.elapsed >= defaultTimeout
        /\ req.pc = "returned" => req.elapsed < defaultTimeout)
  /\ [][/\ req'.timer = "armed" => (req.timer = "armed" \/ req.pc = "idle")
        /\ req.timer \in {"fired", "cleared"} => req'.timer = req.timer
        /\ (req.timer = "fired" /\ req.pc = "fetching" /\ req' # req) =>
             /\ req'.cause = "abort"
             /\ req'.attempts = req.attempts + 1
             /\ req'.elapsed = req.elapsed
             /\ req'.pc \in {"backoff", "failed"}]_vars

W_C35_FiredInFirstAttemptEndsInFailure ==
  /\ req.pc = "failed"
  /\ req.timer = "fired"
  /\ req.fetches = 3
  /\ req.thrown = "abort"
  /\ req.elapsed = defaultTimeout + 200 + 400

(***************************************************************************)
(* Composition and execution of one combinator query over two operand     *)
(* queries (kraxel-validation.ts 33-42, 47-132).  join.kind is the        *)
(* combinator of the composed query, join.left and join.right the state   *)
(* of the operands' execute() promises, join.completed the order in which *)
(* they settled, join.leftRuns and join.rightRuns the number of times the *)
(* operands were executed.  What an operand resolves to is chosen when it *)
(* settles: the upstream data may differ from one execution to the next.  *)
(***************************************************************************)
\* what an operand can resolve to: any sequence of two transactions
JoinResults ==
  LET txs == {Tx("t1", "a1", 10, 1000, <<>>), Tx("t2", "a2", 10, 1000, <<>>)}
  IN  {ValidationResult(sat, ms, 1, FALSE) :
         sat \in BOOLEAN, ms \in SeqsUpTo(txs, MaxMatches)}

\* execute() with the operands' results of the first execution kept
startOperandsCached(j) ==
  IF j.executions = 0
    THEN [j EXCEPT !.executions = @ + 1, !.completed = <<>>,
                   !.left = "running", !.leftRuns = @ + 1,
                   !.right = IF j.kind = "not" THEN "idle" ELSE "running",
                   !.rightRuns = IF j.kind = "not" THEN @ ELSE @ + 1]
    ELSE [j EXCEPT !.executions = @ + 1]

\* kraxel-validation.ts 53-56, 83-86, 120: execute() calls left.execute()
\* and right.execute() one after the other, before it awaits anything (not
\* has the one operand only)
startOperands(j) ==
  [j EXCEPT !.executions = @ + 1, !.completed = <<>>,
            !.left = "running", !.leftRuns = @ + 1,
            !.right = IF j.kind = "not" THEN "idle" ELSE "running",
            !.rightRuns = IF j.kind = "not" THEN @ ELSE @ + 1]

\* the operands' results in the order in which they settled
promiseAllByCompletion(j, l, r) ==
  IF Len(j.completed) > 0 /\ j.completed[1] = "right" THEN <<r, l>> ELSE <<l, r>>

\* kraxel-validation.ts 53-56: Promise.all resolves to the values in the
\* order of the promises it was given
promiseAll(j, l, r) == <<l, r>>

\* kraxel-validation.ts 52-75, 82-113, 119-130: the body of execute() after
\* the await
combine(j, l, r) ==
  LET both == promiseAll(j, l, r)
  IN  IF j.kind = "and" THEN and(both[1], both[2])
      ELSE IF j.kind = "or" THEN or(both[1], both[2])
      ELSE not(l)

InitJoin ==
  /\ RunnerIdle(<<>>, <<>>)
  /\ CombIdle
  /\ PrimIdle
  /\ req = NoRequest
  /\ join = NoJoin
  /\ http = NoHttp

\* kraxel-validation.ts 33-42, 51-52, 81-82, 119: left.and(right),
\* left.or(right) or left.not() builds the composed query
Compose ==
  /\ join.kind = "none"
  /\ \E kind \in {"and", "or", "not"} : join' = [join EXCEPT !.kind = kind]
  /\ UNCHANGED <<runnerVars, combVars, primVars, req, http>>

\* kraxel-validation.ts 53-56, 83-86, 120: execute() of the composed query
\* is called and starts its operands
StartOperands ==
  /\ join.kind # "none"
  /\ join.executions = join.resolved
  /\ join.executions < MaxExecutions
  /\ join' = startOperands(join)
  /\ UNCHANGED <<runnerVars, combVars, primVars, req, http>>

\* the left operand's execute() resolves
FinishLeft ==
  /\ join.left = "running"
  /\ \E result \in JoinResults : leftResult' = result
  /\ join' = [join EXCEPT !.left = "done", !.completed = Append(@, "left")]
  /\ UNCHANGED <<rightResult, combinator, combined, runnerVars, primVars, req, http>>

\* the right operand's execute() resolves
FinishRight ==
  /\ join.right = "running"
  /\ \E result \in JoinResults : rightResult' = result
  /\ join' = [join EXCEPT !.right = "done", !.completed = Append(@, "right")]
  /\ UNCHANGED <<leftResult, combinator, combined, runnerVars, primVars, req, http>>

\* kraxel-validation.ts 53-75, 83-113, 120-130: the await is over and
\* execute() resolves to the combined result
Join ==
  /\ join.executions > join.resolved
  /\ join.left = "done"
  /\ join.kind = "not" \/ join.right = "done"
  /\ combinator' = join.kind
  /\ combined' = combine(join, leftResult, rightResult)
  /\ join' = [join EXCEPT !.resolved = @ + 1, !.previous = combined]
  /\ UNCHANGED <<leftResult, rightResult, runnerVars, primVars, req, http>>

NextJoin ==
  \/ Compose
  \/ StartOperands
  \/ FinishLeft
  \/ FinishRight
  \/ Join

SpecJoin == InitJoin /\ [][NextJoin]_vars

\* C29: execute() of and/or starts both operands before either settles and
\* resolves only after both have settled; the satisfied flag and the
\* matches of the result are those of and/or applied to (left, right),
\* whichever operand settled first, and the matches or takes from the left
\* operand come before those it takes from the right.
C29_BothStartedThenJoined ==
  /\ [](join.kind \in {"and", "or"} =>
          /\ join.left = "idle" <=> join.right = "idle"
          /\ join.leftRuns = join.rightRuns)
  /\ [][(join.kind \in {"and", "or"} /\ join'.resolved = join.resolved + 1) =>
          /\ join.left = "done" /\ join.right = "done"
          /\ Len(join.completed) = 2
          /\ combined' = (IF join.kind = "and"
                            THEN and(leftResult, rightResult)
                            ELSE or(leftResult, rightResult))
          /\ join.kind = "and" =>
               /\ combined'.satisfied =
                    (leftResult.satisfied /\ rightResult.satisfied
                       /\ Len(combined'.matches) > 0)
               /\ Range(combined'.matches) \subseteq Range(leftResult.matches)
          /\ join.kind = "or" =>
               /\ combined'.satisfied =
                    (leftResult.satisfied \/ rightResult.satisfied)
               /\ LET leftEntries ==
                        addUniqueMatches([seen |-> {}, out |-> <<>>],
                                         leftResult.matches, 1).out
                      k == Len(leftEntries)
                  IN  /\ Len(combined'.matches) >= k
                      /\ SubSeq(combined'.matches, 1, k) = leftEntries
                      /\ \A i \in (k + 1)..Len(combined'.matches) :
                           /\ combined'.matches[i] \in Range(rightResult.matches)
                           /\ combined'.matches[i] \notin Range(leftResult.matches)]_vars

W_C29_RightSettledFirst ==
  /\ join.kind = "or"
  /\ join.resolved = 1
  /\ join.completed = <<"right", "left">>
  /\ leftResult.matches = <<Tx("t1", "a1", 10, 1000, <<>>)>>
  /\ rightResult.matches = <<Tx("t2", "a2", 10, 1000, <<>>)>>
  /\ combined.matches = <<Tx("t1", "a1", 10, 1000, <<>>), Tx("t2", "a2", 10, 1000, <<>>)>>

\* C30: composing a query executes nothing and changes nothing of its
\* operands; every execute() of the composed query executes each operand
\* once more (not has one operand), so that after k calls each operand was
\* executed k times, and the result is computed from what the operands
\* resolved to in this execution.
C30_EveryExecuteRunsOperandsOnce ==
  /\ [](/\ join.leftRuns = join.executions
        /\ join.rightRuns = (IF join.kind = "not" THEN 0 ELSE join.executions)
        /\ join.resolved <= join.executions)
  /\ [][/\ join'.kind # join.kind =>
             /\ join.kind = "none"
             /\ join'.leftRuns = 0 /\ join'.rightRuns = 0 /\ join'.executions = 0
             /\ UNCHANGED <<leftResult, rightResult, combined>>
        /\ join'.executions # join.executions =>
             /\ join'.executions = join.executions + 1
             /\ join'.leftRuns = join.leftRuns + 1
             /\ join'.left = "running"
             /\ join.kind # "not" =>
                  /\ join'.rightRuns = join.rightRuns + 1
                  /\ join'.right = "running"
        /\ join'.resolved # join.resolved =>
             /\ "left" \in Range(join.completed)
             /\ join.kind # "not" => "right" \in Range(join.completed)
             /\ combined' = combine(join, leftResult, rightResult)]_vars

W_C30_SecondExecutionDiffers ==
  /\ join.kind = "and"
  /\ join.executions = 2
  /\ join.resolved = 2
  /\ join.leftRuns = 2
  /\ join.rightRuns = 2
  /\ join.previous.satisfied
  /\ ~combined.satisfied

\* a quest the owner has activated
ActiveQuest(type) == [Quest(type) EXCEPT !.status = "active"]

(***************************************************************************)
(* Sweeps one after another over one active quest that has a pending       *)
(* record: the record of a run at clock 0 whose update after the switch    *)
(* and whose update of the catch block were both rejected (validator.ts    *)
(* 233-263).  The sweeps add at most MaxValidations records to it.         *)
(***************************************************************************)
InitStuck ==
  /\ RunnerIdle(<<ActiveQuest("swappedFor")>>,
                <<createQuestValidation(
                    1, [criteria |-> Quest("swappedFor").criteria, startTime |-> 0],
                    0)>>)
  /\ CombIdle
  /\ PrimIdle
  /\ SideIdle

\* validator.ts 96-104: createQuestValidation beside the record left behind
CreateBeside(s) ==
  /\ pc[s] = "create"
  /\ CreateUpTo(s, MaxValidations + 1)

NextStuck ==
  \/ Tick
  \/ StartSweep(1)
  \/ Gate(1)
  \/ CreateBeside(1)
  \/ Execute(1)
  \/ WriteRow(1)
  \/ Update(1)
  \/ CatchUpdate(1)

SpecStuck == InitStuck /\ [][NextStuck]_vars

\* C8: sweeps run one after another are idempotent per quest: a record of a
\* quest that carries a nextValidationAt is followed by a record of the same
\* quest only from that time on, and gets no further result row.
C8_SequentialSweepsIdempotent ==
  /\ [](\A i, j \in 1..Len(validations) :
          (/\ i < j
           /\ liveOfOneQuest(validations, i, j)
           /\ validations[i].nextValidationAt # NoDate)
            => validations[j].validatedAt >= validations[i].nextValidationAt)
  /\ [][\A i \in 1..Len(validations) :
          (validations[i] # Deleted /\ validations[i].nextValidationAt # NoDate)
            => rowsOf(results', i) = rowsOf(results, i)]_vars

(***************************************************************************)
(* Two invocations of the cron route at the same time (part_001 10-48):    *)
(* nothing in the route or in validateAllActiveQuests keeps a second       *)
(* trigger from starting a sweep while the first one is still running.     *)
(* The behaviours start after the owner has activated one quest; each of   *)
(* the two invocations of the route happens once.                          *)
(***************************************************************************)
InitOverlap ==
  /\ RunnerIdle(<<ActiveQuest("swappedFor")>>, <<>>)
  /\ CombIdle
  /\ PrimIdle
  /\ SideIdle

\* part_001 10-16: one invocation of the cron route, which has not been
\* answered before
Invoke(s) ==
  /\ response[s] = 0
  /\ StartSweep(s)

NextOverlap ==
  \/ Tick
  \/ Invoke(1)
  \/ Gate(1)
  \/ Create(1)
  \/ Execute(1)
  \/ WriteRow(1)
  \/ Update(1)
  \/ CatchUpdate(1)
  \/ Invoke(2)
  \/ Gate(2)
  \/ Create(2)
  \/ Execute(2)
  \/ WriteRow(2)
  \/ Update(2)
  \/ CatchUpdate(2)

SpecOverlap == InitOverlap /\ [][NextOverlap]_vars

\* C32: no validation record is created for a quest while an earlier record
\* of it is pending or has a nextValidationAt in the future, also when two
\* sweeps run at the same time.
C32_OneValidationPerWindow ==
  [][LET inEligibilityWindow(questId, t) ==
           \E i \in 1..Len(validations) :
             /\ validations[i] # Deleted
             /\ validations[i].questId = questId
             /\ \/ validations[i].status = "pending"
                \/ validations[i].nextValidationAt > t
     IN  Len(validations') = Len(validations) + 1 =>
           ~inEligibilityWindow(validations'[Len(validations) + 1].questId, now)]_vars

(***************************************************************************)
(* The runner over one active firstNBuyers quest whose stored numUsers is  *)
(* any number the criteria schema lets through (quest-tool.ts 22: params   *)
(* is z.record(z.any())), and over upstreams that include a swap without   *)
(* user_address.                                                           *)
(***************************************************************************)
StoredNumUsers == {0 - 1, 0, 1, 2}

InitBuyers ==
  /\ \E numUsers \in StoredNumUsers :
       RunnerIdle(<<[ActiveQuest("firstNBuyers")
                       EXCEPT !.criteria.params.numUsers = numUsers]>>, <<>>)
  /\ CombIdle
  /\ PrimIdle
  /\ SideIdle

\* validator.ts 109-227: the switch executed against the upstreams above
ExecuteBuyers(s) ==
  /\ pc[s] = "execute"
  /\ ExecuteOver(s, RunnerUpstreams \cup {UpNoAddress})

NextBuyers ==
  \/ Tick
  \/ StartSweep(1)
  \/ Gate(1)
  \/ Create(1)
  \/ ExecuteBuyers(1)
  \/ WriteRow(1)
  \/ Update(1)
  \/ CatchUpdate(1)

SpecBuyers == InitBuyers /\ [][NextBuyers]_vars

\* C36: a validation record with status success has a validAddresses that
\* is not empty and at least one result row.
C36_SuccessHasAddressAndRow ==
  \A i \in 1..Len(validations) :
    (validations[i] # Deleted /\ validations[i].status = "success") =>
      /\ validations[i].validAddresses # <<>>
      /\ rowsOf(results, i) # <<>>

(***************************************************************************)
(* The validations endpoint (api/quests/validations/route.ts 12-52) over a *)
(* store of two quests with their owners, validation records of either     *)
(* quest, and one result row per record.  The handler reads the store      *)
(* twice (getQuestById at 31, then the rows or the records at 43 or 48);   *)
(* a DELETE of a quest can run between the two reads.                      *)
(***************************************************************************)
Users == {"u1", "u2"}

\* a stored quest with its owner (Quest.userId, part_004 12)
OwnedQuest(type, userId) ==
  [status |-> "active", criteria |-> Quest(type).criteria, userId |-> userId]

\* a validation record of quest questId created at the time at, after a
\* successful run
StoredValidation(questId, at) ==
  [createQuestValidation(questId,
                         [criteria |-> Quest("swappedFor").criteria,
                          startTime |-> at],
                         at)
     EXCEPT !.status = "success",
            !.validAddresses = <<IF questId = 1 THEN "a1" ELSE "a2">>,
            !.nextValidationAt = at + VALIDATION_FREQUENCY_SUCCESS]

\* the records are stored in any order of their validatedAt (overlapping
\* sweeps insert in either order), two of them possibly with the same one
InitEndpoint ==
  /\ now = 0
  /\ \E owners \in [1..2 -> Users] :
       quests = [q \in 1..2 |-> OwnedQuest("swappedFor", owners[q])]
  /\ \E questOf \in SeqsUpTo({1, 2}, MaxValidations) :
       \E at \in [1..Len(questOf) -> 0..1] :
         /\ validations =
              [k \in 1..Len(questOf) |-> StoredValidation(questOf[k], at[k] * TickMs)]
         /\ results =
              [k \in 1..Len(questOf) |->
                 createQuestValidationResult(
                   k, IF questOf[k] = 1 THEN "a1" ELSE "a2",
                   [tx_id |-> "t1", block_height |-> 10], "swappedFor")]
  /\ pc = [s \in SweepIds |-> "idle"]
  /\ activeQuests = [s \in SweepIds |-> <<>>]
  /\ idx = [s \in SweepIds |-> 1]
  /\ response = [s \in SweepIds |-> 0]
  /\ logged = [s \in SweepIds |-> "none"]
  /\ run = [s \in SweepIds |-> NoRun]
  /\ CombIdle
  /\ PrimIdle
  /\ SideIdle

\* queries.ts 541-552: the answers the query can give: the records of the
\* quest ordered by validatedAt descending; the order of records with the
\* same validatedAt is the database's
getQuestValidationsByQuestId(questId) ==
  LET ids == SelectSeq([i \in 1..Len(validations) |-> i],
                       LAMBDA i : /\ validations[i] # Deleted
                                  /\ validations[i].questId = questId)
      ordered(p) ==
        \A a, b \in 1..Len(ids) :
          a < b => validations[ids[p[a]]].validatedAt
                     >= validations[ids[p[b]]].validatedAt
  IN  {[k \in 1..Len(ids) |-> validations[ids[p[k]]]] :
         p \in {q \in Permutations(1..Len(ids)) : ordered(q)}}

\* route.ts 12-38: the answer to GET ?questId=&validationId= by the session
\* user ("" without a session; 0 for a parameter that is not given) once
\* getQuestById has answered (ok) or rejected; awaiting: the handler goes on
\* to its second read
validationsResponse(session, questId, validationId, ok) ==
  LET answer(status, awaiting) ==
        [session |-> session, questId |-> questId, validationId |-> validationId,
         status |-> status, results |-> <<>>, validations |-> <<>>,
         awaiting |-> awaiting]
  IN  IF session = "" THEN answer(401, FALSE)
      ELSE IF questId = 0 THEN answer(400, FALSE)
      ELSE IF ~ok THEN answer(500, FALSE)
      ELSE IF questId \notin 1..Len(quests) \/ quests[questId] = Deleted
        THEN answer(404, FALSE)
      ELSE IF quests[questId].userId # session THEN answer(403, FALSE)
      ELSE answer(0, TRUE)

\* route.ts 12-38: a request to the endpoint, up to the answer of
\* getQuestById
GETValidations ==
  /\ ~http.awaiting
  /\ \E session \in Users \cup {""}, questId \in 0..3,
        validationId \in 0..(MaxValidations + 1), ok \in BOOLEAN :
       http' = validationsResponse(session, questId, validationId, ok)
  /\ UNCHANGED <<runnerVars, combVars, primVars, req, join>>

\* route.ts 40-51: the second read of the handler answers, with the rows of
\* validationId (getQuestValidationResults, queries.ts 582-596: no ORDER BY)
\* or with the records of the quest, or rejects (500)
GETValidationsRead ==
  /\ http.awaiting
  /\ \E ok \in BOOLEAN :
       IF ~ok
         THEN http' = [http EXCEPT !.status = 500, !.awaiting = FALSE]
       ELSE IF http.validationId # 0
         THEN LET rows == rowsOf(results, http.validationId)
              IN  \E p \in Permutations(1..Len(rows)) :
                    http' = [http EXCEPT !.status = 200, !.awaiting = FALSE,
                                         !.results = [k \in 1..Len(rows) |-> rows[p[k]]]]
       ELSE \E vs \in getQuestValidationsByQuestId(http.questId) :
              http' = [http EXCEPT !.status = 200, !.awaiting = FALSE,
                                   !.validations = vs]
  /\ UNCHANGED <<runnerVars, combVars, primVars, req, join>>

NextEndpoint ==
  \/ GETValidations
  \/ GETValidationsRead
  \/ DELETE

SpecEndpoint == InitEndpoint /\ [][NextEndpoint]_vars

\* C37: the result rows the endpoint returns belong to validations of
\* quests whose owner is the session user.
C37_ResultRowsOnlyToQuestOwner ==
  [][(http.awaiting /\ http'.status = 200) =>
       \A k \in 1..Len(http'.results) :
         quests[validations[http'.results[k].validationId].questId].userId
           = http'.session]_vars

====
